---- MODULE Spec2Model ----
(***************************************************************************)
(* A model of slbc-core (Sanskrit Linguistic Binary Codec): the phoneme    *)
(* byte classification, the ULEB128 varint, the .slbc container, the       *)
(* numeral sub-codec, the IAST tokenizer/encoder and the two decoders.     *)
(*                                                                         *)
(* Conventions.  A byte is a number 0..255.  A char is its Unicode code    *)
(* point, a text is a sequence of chars.  Offsets are 0-based as in the    *)
(* source; At(data, i) reads data[i].  A Rust Result is a record           *)
(* [ok, val, err]; a panic (index out of bounds, unwrap on None) is the    *)
(* result Panic(why), which no caller can handle.                          *)
(***************************************************************************)
EXTENDS Integers, Sequences, FiniteSets, TLC

VARIABLES
    pc,      \* position of the driver: which operation has been applied
    input,   \* the argument handed to the operation (byte, value, text, payload)
    data,    \* the byte buffer (&[u8] / Vec<u8>) the readers work on
    script,  \* decoder::Script of the decode call, or "none"
    st       \* state of the running reader loop, or the result of the operation

vars == <<pc, input, data, script, st>>

(***************************************************************************)
(* Bounds of the model.                                                    *)
(***************************************************************************)
MaxVarintBytes == 6   \* longest byte string handed to read_uleb128
MaxPayload == 3       \* longest PHON payload put together byte by byte
MaxBody == 5          \* most bytes appended after a 14-byte header
MaxDigits == 3        \* longest numeral typed digit by digit
MaxPieces == 3        \* most pieces (a byte or an encoded numeral) in a payload
MaxText == 3          \* longest text typed char by char
MaxTokens == 3        \* longest token sequence handed to tokens_to_bytes

(***************************************************************************)
(* Result values.                                                          *)
(***************************************************************************)
Ok(v) == [ok |-> TRUE, val |-> v, err |-> <<>>]
Err(e) == [ok |-> FALSE, val |-> <<>>, err |-> e]
Panic(why) == [ok |-> FALSE, val |-> <<>>, err |-> <<"panic", why>>]
IsPanic(r) == ~r.ok /\ r.err # <<>> /\ r.err[1] = "panic"
None == [ok |-> FALSE, val |-> <<>>, err |-> <<"not run">>]

(***************************************************************************)
(* Slices, 0-based.                                                        *)
(***************************************************************************)
At(s, i) == s[i + 1]
\* s[from..to]
Slice(s, from, to) == SubSeq(s, from + 1, to)
\* s[from..]
SliceFrom(s, from) == SubSeq(s, from + 1, Len(s))

Reverse(s) == [k \in 1..Len(s) |-> s[Len(s) + 1 - k]]

(***************************************************************************)
(* types.rs: byte constants.                                               *)
(***************************************************************************)
META_START == \h06
META_END == \h0E
PHON_START == \h16
PHON_END == \h1E
PADA_START == \h26
PADA_END == \h2E
SANKHYA_START == \h3E

DANDA == \h0F
DOUBLE_DANDA == \h17
SPACE == \h1F
AVAGRAHA == \h27
NUM == \h2F
META_EXT == \h37

CHUNK_PHON == \h01
CHUNK_EOF == \hFF

\* b"SLBC"
MAGIC == <<\h53, \h4C, \h42, \h43>>
VERSION == <<\h00, \h00, \h00, \h0A>>

FLAG_HAS_LIPI == \h80
FLAG_HAS_META == \h40
FLAG_INTERLEAVED == \h20
FLAG_VEDIC == \h10
FLAG_VYA == \h08

Byte == 0..255

(***************************************************************************)
(* types.rs: classification predicates and field extractors.               *)
(*   b >> 6 is b \div 64, b & 0x07 is b % 8, (b >> 3) & 0x07 is            *)
(*   (b \div 8) % 8.                                                       *)
(***************************************************************************)
is_svara(b) == (b \div 64) # 0

is_vyanjana_off_by_one(b) == (b \div 64) = 0 /\ (b % 8) <= 5
is_vyanjana(b) == (b \div 64) = 0 /\ (b % 8) <= 4

is_varga(b) == (b \div 64) = 0 /\ ((b \div 8) % 8) <= 4 /\ (b % 8) <= 4

is_bhasha_control(b) == (b \div 64) = 0 /\ (b % 8) = 6

is_lipi_control(b) == (b \div 64) = 0 /\ (b % 8) = 7

place(b) == (b \div 8) % 8
column(b) == b % 8
svara_q(b) == (b \div 64) % 4
svara_a(b) == (b \div 16) % 4
svara_s(b) == (b \div 4) % 4
svara_g(b) == b % 4

(***************************************************************************)
(* inspect.rs: inspect_byte, reduced to the class it reports (the first    *)
(* predicate that holds, in the order the function tests them).            *)
(***************************************************************************)
inspect_byte(b) ==
    IF is_svara(b) THEN "Svara"
    ELSE IF is_vyanjana(b) THEN "Vyanjana"
    ELSE IF is_bhasha_control(b) THEN "BhashaControl"
    ELSE IF is_lipi_control(b) THEN "LipiControl"
    ELSE "Reserved"

(***************************************************************************)
(* u64 arithmetic.  TLC's integers are 32-bit, the varint reader's         *)
(* accumulator is a u64 that reaches 2^35 - 1, so a u64 is kept as         *)
(* [hi, lo] with value hi * 2^28 + lo and lo < 2^28.                       *)
(***************************************************************************)
LoBits == 2 ^ 28   \* the split of a u64 into [hi, lo]

U64(n) == [hi |-> n \div LoBits, lo |-> n % LoBits]
U64Zero == [hi |-> 0, lo |-> 0]
\* u32::MAX = 2^32 - 1 = 15 * 2^28 + (2^28 - 1)
U32_MAX == [hi |-> 15, lo |-> LoBits - 1]

U64IsZero(v) == v.hi = 0 /\ v.lo = 0
U64Gt(a, b) == a.hi > b.hi \/ (a.hi = b.hi /\ a.lo > b.lo)
U64Add(a, b) ==
    [hi |-> a.hi + b.hi + ((a.lo + b.lo) \div LoBits), lo |-> (a.lo + b.lo) % LoBits]
\* v >> 7
U64Shr7(v) == [hi |-> v.hi \div 128, lo |-> (v.lo \div 128) + (v.hi % 128) * (2 ^ 21)]
\* v >> 8
U64Shr8(v) == [hi |-> v.hi \div 256, lo |-> (v.lo \div 256) + (v.hi % 256) * (2 ^ 20)]
\* (x as u64) << shift, for a 7-bit x and shift <= 28 + 21
U64Shl(x, shift) ==
    IF shift >= 28
    THEN [hi |-> x * (2 ^ (shift - 28)), lo |-> 0]
    ELSE [hi |-> (x * (2 ^ shift)) \div LoBits, lo |-> (x * (2 ^ shift)) % LoBits]

RECURSIVE BitOr(_, _)
BitOr(a, b) ==
    IF a = 0 THEN b
    ELSE IF b = 0 THEN a
    ELSE (IF a % 2 = 1 \/ b % 2 = 1 THEN 1 ELSE 0) + 2 * BitOr(a \div 2, b \div 2)
U64Or(a, b) == [hi |-> BitOr(a.hi, b.hi), lo |-> BitOr(a.lo, b.lo)]

(***************************************************************************)
(* container.rs: ULEB128.                                                  *)
(***************************************************************************)
\* A write loop that shifts by a whole byte instead of 7 bits.
RECURSIVE write_uleb128_shift8(_, _)
write_uleb128_shift8(out, value) ==
    LET low == value.lo % 128
        rest == U64Shr8(value)
        byte == IF ~U64IsZero(rest) THEN low + 128 ELSE low
    IN  IF U64IsZero(rest)
        THEN Append(out, byte)
        ELSE write_uleb128_shift8(Append(out, byte), rest)

\* write_uleb128(out, value): the loop, one byte per turn.
RECURSIVE write_uleb128(_, _)
write_uleb128(out, value) ==
    LET low == value.lo % 128          \* (value & 0x7F) as u8
        rest == U64Shr7(value)          \* value >>= 7
        byte == IF ~U64IsZero(rest) THEN low + 128 ELSE low
    IN  IF U64IsZero(rest)
        THEN Append(out, byte)
        ELSE write_uleb128(Append(out, byte), rest)

\* A read loop without the u32 range check.
RECURSIVE read_uleb128_loop_unchecked(_, _, _, _)
read_uleb128_loop_unchecked(bytes, i, result, shift) ==
    IF i >= Len(bytes) THEN Err(<<"truncated ULEB128">>)
    ELSE IF i >= 5 THEN Err(<<"ULEB128 exceeds 5 bytes (max u32)">>)
    ELSE LET byte == At(bytes, i)
             result2 == U64Or(result, U64Shl(byte % 128, shift))
         IN  IF byte < 128
             THEN Ok([value |-> result2, consumed |-> i + 1])
             ELSE read_uleb128_loop_unchecked(bytes, i + 1, result2, shift + 7)

\* The for loop of read_uleb128 at index i with the accumulator so far.
RECURSIVE read_uleb128_loop(_, _, _, _)
read_uleb128_loop(bytes, i, result, shift) ==
    IF i >= Len(bytes) THEN Err(<<"truncated ULEB128">>)
    ELSE IF i >= 5 THEN Err(<<"ULEB128 exceeds 5 bytes (max u32)">>)
    ELSE LET byte == At(bytes, i)
             result2 == U64Or(result, U64Shl(byte % 128, shift))
         IN  IF byte < 128     \* byte & 0x80 == 0
             THEN IF U64Gt(result2, U32_MAX)
                  THEN Err(<<"ULEB128 value exceeds u32 range">>)
                  ELSE Ok([value |-> result2, consumed |-> i + 1])
             ELSE read_uleb128_loop(bytes, i + 1, result2, shift + 7)

read_uleb128(bytes) == read_uleb128_loop(bytes, 0, U64Zero, 0)

(***************************************************************************)
(* Specification SpecTypes: one byte is drawn and classified.              *)
(***************************************************************************)
InitTypes ==
    /\ pc = "input"
    /\ input \in Byte
    /\ data = <<>>
    /\ script = "none"
    /\ st = None

Classify ==
    /\ pc = "input"
    /\ pc' = "classified"
    /\ st' = Ok([svara |-> is_svara(input),
                 vyanjana |-> is_vyanjana(input),
                 varga |-> is_varga(input),
                 bhasha |-> is_bhasha_control(input),
                 lipi |-> is_lipi_control(input),
                 class |-> inspect_byte(input)])
    /\ UNCHANGED <<input, data, script>>

NextTypes == Classify

SpecTypes == InitTypes /\ [][NextTypes]_vars

\* C5: the classification is a partition of 0..255.  Of the four predicates
\* is_svara, is_vyanjana, is_bhasha_control, is_lipi_control at most one
\* holds; none holds exactly when the top two bits are 00 and COLUMN = 5,
\* which is the byte inspect_byte reports as reserved; and is_varga holds
\* only where is_vyanjana holds.
C5_ClassificationPartition ==
    pc = "classified" =>
        LET r == st.val
            hits == {k \in {"svara", "vyanjana", "bhasha", "lipi"} : r[k]}
        IN  /\ Cardinality(hits) <= 1
            /\ (hits = {}) <=> ((input \div 64) = 0 /\ (input % 8) = 5)
            /\ (hits = {}) <=> (r.class = "Reserved")
            /\ r.svara <=> (r.class = "Svara")
            /\ r.vyanjana <=> (r.class = "Vyanjana")
            /\ r.bhasha <=> (r.class = "BhashaControl")
            /\ r.lipi <=> (r.class = "LipiControl")
            /\ r.varga => r.vyanjana

\* A reserved byte has been classified.
C5_Witness == pc = "classified" /\ st.val.class = "Reserved" /\ input = \h2D

(***************************************************************************)
(* Specification SpecVarint: a value is written with write_uleb128, or a   *)
(* byte string is put together byte by byte, and read_uleb128 reads it.    *)
(***************************************************************************)
VarintValues ==
    {U64(n) : n \in (0..300) \cup {16383, 16384, 100000, 2 ^ 21 - 1, 2 ^ 21,
                                   2 ^ 28 - 1}}
    \cup {[hi |-> 1, lo |-> 0], [hi |-> 7, lo |-> 2 ^ 28 - 1], [hi |-> 8, lo |-> 0],
          [hi |-> 15, lo |-> 12345], U32_MAX, [hi |-> 16, lo |-> 0],
          [hi |-> 127, lo |-> 2 ^ 28 - 1]}

VarintBytes == {\h00, \h0F, \h10, \h7F, \h80, \hFF}

InitVarint ==
    /\ pc = "input"
    /\ input = U64Zero
    /\ data = <<>>
    /\ script = "none"
    /\ st = None

WriteVarint(v) ==
    /\ pc = "input"
    /\ data = <<>>
    /\ input' = v
    /\ data' = write_uleb128(<<>>, v)
    /\ pc' = "written"
    /\ UNCHANGED <<script, st>>

AppendVarintByte(b) ==
    /\ pc = "input"
    /\ Len(data) < MaxVarintBytes
    /\ data' = Append(data, b)
    /\ UNCHANGED <<pc, input, script, st>>

ReadVarint ==
    /\ pc \in {"input", "written"}
    /\ st' = read_uleb128(data)
    /\ pc' = IF pc = "written" THEN "roundtrip" ELSE "read"
    /\ UNCHANGED <<input, data, script>>

NextVarint ==
    \/ \E v \in VarintValues : WriteVarint(v)
    \/ \E b \in VarintBytes : AppendVarintByte(b)
    \/ ReadVarint

SpecVarint == InitVarint /\ [][NextVarint]_vars

\* C3: for every value v in 0 .. 2^32-1, read_uleb128 on the bytes written by
\* write_uleb128(v) returns v, and the consumed count is the number of bytes
\* written.
C3_VarintRoundTrip ==
    (pc = "roundtrip" /\ ~U64Gt(input, U32_MAX)) =>
        /\ st.ok
        /\ st.val.value = input
        /\ st.val.consumed = Len(data)

\* The largest 32-bit value has been written in five bytes and read back.
C3_Witness ==
    pc = "roundtrip" /\ input = U32_MAX /\ st.ok /\ Len(data) = 5

\* 0-based index of the first byte without the continuation bit, -1 if none.
RECURSIVE FirstTerminator(_, _)
FirstTerminator(bytes, i) ==
    IF i >= Len(bytes) THEN -1
    ELSE IF At(bytes, i) < 128 THEN i
    ELSE FirstTerminator(bytes, i + 1)

\* C8: read_uleb128 reads at most 5 groups.  A stream with no terminating
\* byte among its first 5 is rejected; a stream that terminates within 5
\* groups with a value above 2^32-1 (fifth group >= 0x10) is rejected with a
\* different error; every successful result has value <= 2^32-1 and a
\* consumed count in 1..5, the index of the terminating byte plus one.
C8_VarintRejects ==
    pc \in {"read", "roundtrip"} =>
        LET t == FirstTerminator(data, 0)
            tooBig == t = 4 /\ (At(data, 4) % 128) >= 16
            overflow == <<"ULEB128 value exceeds u32 range">>
        IN  /\ st.ok => /\ ~U64Gt(st.val.value, U32_MAX)
                        /\ st.val.consumed \in 1..5
                        /\ st.val.consumed = t + 1
            /\ (t = -1 \/ t >= 5) =>
                   /\ ~st.ok
                   /\ st.err \in {<<"truncated ULEB128">>,
                                  <<"ULEB128 exceeds 5 bytes (max u32)">>}
                   /\ (Len(data) > 5 <=> st.err = <<"ULEB128 exceeds 5 bytes (max u32)">>)
            /\ (t \in 0..4 /\ tooBig) => (~st.ok /\ st.err = overflow)
            /\ (t \in 0..4 /\ ~tooBig) => st.ok

\* Both rejections have happened: here the value overflow on a five-byte stream.
C8_Witness ==
    /\ pc = "read"
    /\ ~st.ok
    /\ st.err = <<"ULEB128 value exceeds u32 range">>
    /\ Len(data) = 5

(***************************************************************************)
(* container.rs: header and chunk writers.                                 *)
(***************************************************************************)
\* A builder that sets the VEDIC bit for the interleaved option.
build_header_vedic(has_lipi, has_meta_markers, interleaved) ==
    LET f1 == IF has_lipi THEN FLAG_HAS_LIPI ELSE 0
        f2 == IF has_meta_markers THEN BitOr(f1, FLAG_HAS_META) ELSE f1
        flags == IF interleaved THEN BitOr(f2, FLAG_VEDIC) ELSE f2
    IN  MAGIC \o VERSION \o <<0, 0, 0>> \o <<flags>> \o <<0, 0>>

build_header(has_lipi, has_meta_markers, interleaved) ==
    LET f1 == IF has_lipi THEN FLAG_HAS_LIPI ELSE 0
        f2 == IF has_meta_markers THEN BitOr(f1, FLAG_HAS_META) ELSE f1
        flags == IF interleaved THEN BitOr(f2, FLAG_INTERLEAVED) ELSE f2
    IN  MAGIC \o VERSION \o <<0, 0, 0>> \o <<flags>> \o <<0, 0>>

write_chunk(out, chunk_type, payload) ==
    write_uleb128(Append(out, chunk_type), U64(Len(payload))) \o payload

write_eof(out) == out \o <<CHUNK_EOF, 0>>

\* A builder that forgets the EOF chunk.
build_slbc_no_eof(phon_payload) ==
    write_chunk(build_header(TRUE, TRUE, TRUE), CHUNK_PHON, phon_payload)

build_slbc(phon_payload) ==
    write_eof(write_chunk(build_header(TRUE, TRUE, TRUE), CHUNK_PHON, phon_payload))

(***************************************************************************)
(* container.rs: SlbcHeader accessors.                                     *)
(***************************************************************************)
has_lipi(header) == (header.flags \div FLAG_HAS_LIPI) % 2 # 0
has_meta(header) == (header.flags \div FLAG_HAS_META) % 2 # 0
is_interleaved(header) == (header.flags \div FLAG_INTERLEAVED) % 2 # 0
is_vedic(header) == (header.flags \div FLAG_VEDIC) % 2 # 0
has_vya(header) == (header.flags \div FLAG_VYA) % 2 # 0

(***************************************************************************)
(* container.rs: parse_slbc.  The state of the parse is                    *)
(*   [done, pos, chunks, header, res]: the cursor and the chunks pushed so *)
(* far while the while loop runs, and the returned Result once done.       *)
(***************************************************************************)
NoHeader == [version |-> <<>>, flags |-> 0, extended_header_len |-> 0]
ParseIdle == [done |-> FALSE, pos |-> 0, chunks |-> <<>>, header |-> NoHeader, res |-> None]
ParseReturn(s, r) == [s EXCEPT !.done = TRUE, !.res = r]

\* Header checks that compare only the first three magic bytes.
parse_begin_magic3(bytes) ==
    IF Len(bytes) < 14
    THEN ParseReturn(ParseIdle, Err(<<"file too short for SLBC header">>))
    ELSE IF Slice(bytes, 0, 3) # Slice(MAGIC, 0, 3)
    THEN ParseReturn(ParseIdle, Err(<<"invalid magic bytes (expected 'SLBC')">>))
    ELSE LET ext_len == At(bytes, 12) + 256 * At(bytes, 13)
         IN  [done |-> FALSE,
              pos |-> 14 + ext_len,
              chunks |-> <<>>,
              header |-> [version |-> Slice(bytes, 4, 8),
                          flags |-> At(bytes, 11),
                          extended_header_len |-> ext_len],
              res |-> None]

\* Lines 146-169: the header checks, up to the first test of the loop.
parse_begin(bytes) ==
    IF Len(bytes) < 14
    THEN ParseReturn(ParseIdle, Err(<<"file too short for SLBC header">>))
    ELSE IF Slice(bytes, 0, 4) # MAGIC
    THEN ParseReturn(ParseIdle, Err(<<"invalid magic bytes (expected 'SLBC')">>))
    ELSE LET ext_len == At(bytes, 12) + 256 * At(bytes, 13)   \* u16::from_le_bytes
         IN  [done |-> FALSE,
              pos |-> 14 + ext_len,
              chunks |-> <<>>,
              header |-> [version |-> Slice(bytes, 4, 8),
                          flags |-> At(bytes, 11),
                          extended_header_len |-> ext_len],
              res |-> None]

\* One turn of the while loop whose payload check compares the length alone
\* with the buffer's length.
parse_step_len_only(bytes, s) ==
    IF ~(s.pos < Len(bytes))
    THEN ParseReturn(s, Ok([header |-> s.header, chunks |-> s.chunks]))
    ELSE LET chunk_type == At(bytes, s.pos)
             pos1 == s.pos + 1
             r == read_uleb128(SliceFrom(bytes, pos1))
         IN  IF ~r.ok
             THEN ParseReturn(s, Err(<<"chunk length ULEB128 error", pos1, r.err>>))
             ELSE LET pos2 == pos1 + r.val.consumed
                      payload_len == r.val.value
                  IN  IF U64Gt(payload_len, U64(Len(bytes)))
                      THEN ParseReturn(s, Err(<<"chunk payload extends beyond file",
                                                pos2, payload_len>>))
                      ELSE LET n == payload_len.lo
                               end == IF pos2 + n > Len(bytes) THEN Len(bytes) ELSE pos2 + n
                               s2 == [s EXCEPT !.pos = pos2 + n,
                                               !.chunks = Append(s.chunks,
                                                   [chunk_type |-> chunk_type,
                                                    payload |-> Slice(bytes, pos2, end)])]
                           IN  IF chunk_type = CHUNK_EOF
                               THEN ParseReturn(s2, Ok([header |-> s2.header,
                                                        chunks |-> s2.chunks]))
                               ELSE s2

\* One turn of the while loop that goes on reading after an EOF chunk.
parse_step_no_break(bytes, s) ==
    IF ~(s.pos < Len(bytes))
    THEN ParseReturn(s, Ok([header |-> s.header, chunks |-> s.chunks]))
    ELSE LET chunk_type == At(bytes, s.pos)
             pos1 == s.pos + 1
             r == read_uleb128(SliceFrom(bytes, pos1))
         IN  IF ~r.ok
             THEN ParseReturn(s, Err(<<"chunk length ULEB128 error", pos1, r.err>>))
             ELSE LET pos2 == pos1 + r.val.consumed
                      payload_len == r.val.value
                  IN  IF U64Gt(U64Add(U64(pos2), payload_len), U64(Len(bytes)))
                      THEN ParseReturn(s, Err(<<"chunk payload extends beyond file",
                                                pos2, payload_len>>))
                      ELSE [s EXCEPT !.pos = pos2 + payload_len.lo,
                                     !.chunks = Append(s.chunks,
                                         [chunk_type |-> chunk_type,
                                          payload |-> Slice(bytes, pos2,
                                                            pos2 + payload_len.lo)])]

\* Lines 172-202: one test of the while condition and, when it holds, one
\* turn of the loop; usize is 64-bit, so pos + payload_len does not wrap.
parse_step(bytes, s) ==
    IF ~(s.pos < Len(bytes))
    THEN ParseReturn(s, Ok([header |-> s.header, chunks |-> s.chunks]))
    ELSE LET chunk_type == At(bytes, s.pos)
             pos1 == s.pos + 1
             r == read_uleb128(SliceFrom(bytes, pos1))
         IN  IF ~r.ok
             THEN ParseReturn(s, Err(<<"chunk length ULEB128 error", pos1, r.err>>))
             ELSE LET pos2 == pos1 + r.val.consumed
                      payload_len == r.val.value
                  IN  IF U64Gt(U64Add(U64(pos2), payload_len), U64(Len(bytes)))
                      THEN ParseReturn(s, Err(<<"chunk payload extends beyond file",
                                                pos2, payload_len>>))
                      ELSE LET n == payload_len.lo
                               s2 == [s EXCEPT !.pos = pos2 + n,
                                               !.chunks = Append(s.chunks,
                                                   [chunk_type |-> chunk_type,
                                                    payload |-> Slice(bytes, pos2, pos2 + n)])]
                           IN  IF chunk_type = CHUNK_EOF     \* break
                               THEN ParseReturn(s2, Ok([header |-> s2.header,
                                                        chunks |-> s2.chunks]))
                               ELSE s2

RECURSIVE parse_run(_, _)
parse_run(bytes, s) == IF s.done THEN s ELSE parse_run(bytes, parse_step(bytes, s))

parse_slbc(bytes) == parse_run(bytes, parse_begin(bytes)).res

(***************************************************************************)
(* Specification SpecContainer: either a payload is put together and       *)
(* framed by build_slbc, or a file is put together from a 14-byte header   *)
(* (or a shorter prefix of one) and a body of arbitrary bytes; parse_slbc  *)
(* then runs on the file, one loop turn per step.                          *)
(***************************************************************************)
PayloadBytes == {\h00, \h26, \h80, \hFF}
LongPayloadLens == {127, 128, 300}
BodyBytes == {\h00, \h01, \h80, \hFF}

\* 14-byte headers: right and wrong magic, other versions, non-zero reserved
\* bytes, every flag bit, several extended-header lengths.
RawHeaders ==
    { magic \o mid \o ext :
        magic \in {MAGIC, <<\h53, \h4C, \h42, \h44>>, <<\h73, \h4C, \h42, \h43>>},
        mid \in {VERSION \o <<0, 0, 0, \hE0>>,
                 <<1, 2, 3, 4>> \o <<0, 0, 0, \hE0>>,
                 VERSION \o <<\hFF, 0, 1, 0>>,
                 VERSION \o <<0, 0, 0, \hFF>>},
        ext \in {<<0, 0>>, <<1, 0>>, <<2, 0>>, <<0, 1>>} }

\* Files shorter than a header: the prefixes of a built header.
ShortHeaders == { Slice(build_header(TRUE, TRUE, TRUE), 0, n) : n \in 0..13 }

InitContainer ==
    /\ pc = "input"
    /\ input = <<>>
    /\ data = <<>>
    /\ script = "none"
    /\ st = ParseIdle

PayloadByte(b) ==
    /\ pc = "input"
    /\ Len(input) < MaxPayload
    /\ input' = Append(input, b)
    /\ UNCHANGED <<pc, data, script, st>>

LongPayload(n) ==
    /\ pc = "input"
    /\ input = <<>>
    /\ input' = [k \in 1..n |-> \hFF]
    /\ UNCHANGED <<pc, data, script, st>>

Build ==
    /\ pc = "input"
    /\ data' = build_slbc(input)
    /\ pc' = "built"
    /\ UNCHANGED <<input, script, st>>

RawHeader(h) ==
    /\ pc = "input"
    /\ input = <<>>
    /\ data' = h
    /\ pc' = "raw"
    /\ UNCHANGED <<input, script, st>>

\* build_header called with any three options; the options are kept in
\* input as 1 (true) or 0 (false).
BuildHeader(lipi, meta, inter) ==
    /\ pc = "input"
    /\ input = <<>>
    /\ data' = build_header(lipi, meta, inter)
    /\ input' = <<IF lipi THEN 1 ELSE 0, IF meta THEN 1 ELSE 0, IF inter THEN 1 ELSE 0>>
    /\ pc' = "header"
    /\ UNCHANGED <<script, st>>

\* The chunk writers run on a built header, as in build_slbc: one PHON chunk,
\* then the EOF chunk.
WriteChunks(payload) ==
    /\ pc = "header"
    /\ data' = write_eof(write_chunk(data, CHUNK_PHON, payload))
    /\ pc' = "framed"
    /\ UNCHANGED <<input, script, st>>

AppendBodyByte(b) ==
    /\ pc = "raw"
    /\ Len(data) >= 14
    /\ Len(data) < 14 + MaxBody
    /\ data' = Append(data, b)
    /\ UNCHANGED <<pc, input, script, st>>

ParseBegin ==
    /\ pc \in {"built", "raw", "framed"}
    /\ st' = parse_begin(data)
    /\ pc' = CASE pc = "built" -> "parse_built"
               [] pc = "raw" -> "parse_raw"
               [] pc = "framed" -> "parse_framed"
    /\ UNCHANGED <<input, data, script>>

ParseStep ==
    /\ pc \in {"parse_built", "parse_raw", "parse_framed"}
    /\ ~st.done
    /\ st' = parse_step(data, st)
    /\ UNCHANGED <<pc, input, data, script>>

NextContainer ==
    \/ \E b \in PayloadBytes : PayloadByte(b)
    \/ \E n \in LongPayloadLens : LongPayload(n)
    \/ Build
    \/ \E h \in RawHeaders \cup ShortHeaders : RawHeader(h)
    \/ \E lipi, meta, inter \in BOOLEAN : BuildHeader(lipi, meta, inter)
    \/ \E payload \in {<<>>, <<\h26, \h00, \h40, \h2E>>} : WriteChunks(payload)
    \/ \E b \in BodyBytes : AppendBodyByte(b)
    \/ ParseBegin
    \/ ParseStep

SpecContainer == InitContainer /\ [][NextContainer]_vars

\* C2: for every payload p (empty, holding 0xFF bytes, long enough for a
\* two-byte length), parse_slbc(build_slbc(p)) succeeds with HAS_LIPI set and
\* exactly two chunks: PHON with payload p, then EOF.
C2_ContainerRoundTrip ==
    (pc = "parse_built" /\ st.done) =>
        /\ st.res.ok
        /\ has_lipi(st.res.val.header)
        /\ st.res.val.chunks = <<[chunk_type |-> CHUNK_PHON, payload |-> input],
                                 [chunk_type |-> CHUNK_EOF, payload |-> <<>>]>>

\* A payload of 0xFF bytes whose length needs a two-byte varint has been
\* built and parsed back.
C2_Witness ==
    /\ pc = "parse_built"
    /\ st.done
    /\ st.res.ok
    /\ Len(input) = 300
    /\ Len(st.res.val.chunks) = 2

\* The file with bytes 4..11 (version, reserved, flags) set to the builder's
\* values.
NormalHeaderFields(bytes) ==
    Slice(bytes, 0, 4) \o VERSION \o <<0, 0, 0, 0>> \o SliceFrom(bytes, 12)

\* C9: parse_slbc rejects every input shorter than 14 bytes (header too
\* short) and every input of 14 bytes or more whose first four bytes are not
\* "SLBC" (bad magic), returning no header and no chunks; version, reserved
\* bytes and flag bits never decide acceptance: the outcome (success with
\* the same chunks, or the same error) is that of the file with those bytes
\* replaced by the builder's.
C9_HeaderRejection ==
    (pc \in {"parse_raw", "parse_built"} /\ st.done) =>
        /\ Len(data) < 14 =>
               /\ st.res = Err(<<"file too short for SLBC header">>)
               /\ st.chunks = <<>>
        /\ (Len(data) >= 14 /\ Slice(data, 0, 4) # MAGIC) =>
               /\ st.res = Err(<<"invalid magic bytes (expected 'SLBC')">>)
               /\ st.chunks = <<>>
        /\ (Len(data) >= 14 /\ Slice(data, 0, 4) = MAGIC) =>
               LET norm == parse_slbc(NormalHeaderFields(data))
               IN  /\ st.res.ok = norm.ok
                   /\ st.res.err = norm.err
                   /\ st.res.ok => st.res.val.chunks = norm.val.chunks
                   /\ st.res.err \notin {<<"file too short for SLBC header">>,
                                         <<"invalid magic bytes (expected 'SLBC')">>}

\* A file of 14 bytes or more with a wrong fourth magic byte has been rejected.
C9_Witness ==
    /\ pc = "parse_raw"
    /\ st.done
    /\ Len(data) > 14
    /\ Slice(data, 0, 3) = Slice(MAGIC, 0, 3)
    /\ st.res = Err(<<"invalid magic bytes (expected 'SLBC')">>)

\* C10: in every turn of the chunk loop whose length varint reads, a declared
\* length larger than the bytes remaining after the varint ends the parse
\* with the payload-overflow error citing the offset after the varint and the
\* declared length, and no chunk list is returned; otherwise the chunk pushed
\* holds exactly the declared number of bytes, copied from that offset.
C10_PayloadWithinBuffer ==
    [][ (pc \in {"parse_built", "parse_raw"} /\ ~st.done /\ st.pos < Len(data)
           /\ read_uleb128(SliceFrom(data, st.pos + 1)).ok) =>
          LET r == read_uleb128(SliceFrom(data, st.pos + 1)).val
              off == st.pos + 1 + r.consumed
              remaining == Len(data) - off
          IN  IF U64Gt(r.value, U64(remaining))
              THEN /\ st'.done
                   /\ st'.res = Err(<<"chunk payload extends beyond file", off, r.value>>)
              ELSE /\ Len(st'.chunks) = Len(st.chunks) + 1
                   /\ SubSeq(st'.chunks, 1, Len(st.chunks)) = st.chunks
                   /\ Len(st'.chunks[Len(st'.chunks)].payload) = r.value.lo
                   /\ st'.chunks[Len(st'.chunks)].payload = Slice(data, off, off + r.value.lo)
                   /\ st'.done => (st'.res.ok /\ st'.res.val.chunks = st'.chunks)
      ]_vars

\* A parse has failed on a chunk that declares more bytes than remain, after
\* an earlier chunk was accepted.
C10_Witness ==
    /\ pc = "parse_raw"
    /\ st.done
    /\ ~st.res.ok
    /\ st.res.err[1] = "chunk payload extends beyond file"
    /\ Len(st.chunks) = 1

\* The chunk list returned by a successful parse ends with an EOF chunk.
ends_with_eof(r) ==
    /\ r.ok
    /\ r.val.chunks # <<>>
    /\ r.val.chunks[Len(r.val.chunks)].chunk_type = CHUNK_EOF

\* C11: parsing stops at the first EOF-type chunk: for every prefix c of the
\* file on which parse_slbc succeeds with an EOF chunk as last chunk,
\* parse_slbc on the whole file (c followed by the remaining bytes) succeeds
\* with the same header and the same chunk list; and no chunk is ever
\* returned after an EOF chunk.
C11_StopsAtFirstEof ==
    (pc \in {"parse_raw", "parse_built"} /\ st.done) =>
        /\ \A n \in 0..Len(data) :
               LET c == parse_slbc(Slice(data, 0, n))
               IN  ends_with_eof(c) =>
                       /\ st.res.ok
                       /\ st.res.val.header = c.val.header
                       /\ st.res.val.chunks = c.val.chunks
        /\ st.res.ok =>
               \A k \in 1..Len(st.res.val.chunks) - 1 :
                   st.res.val.chunks[k].chunk_type # CHUNK_EOF

\* A file whose EOF chunk comes after another chunk and is followed by
\* further bytes has been parsed.
C11_Witness ==
    /\ pc = "parse_raw"
    /\ st.done
    /\ ends_with_eof(st.res)
    /\ Len(st.res.val.chunks) = 2
    /\ st.pos < Len(data)

\* C12: a parsed container is terminated by an EOF chunk: every successful
\* parse_slbc returns a non-empty chunk list whose last chunk has type 0xFF
\* and a zero-length payload.
C12_TerminatedByEof ==
    (pc \in {"parse_raw", "parse_built"} /\ st.done /\ st.res.ok) =>
        /\ ends_with_eof(st.res)
        /\ st.res.val.chunks[Len(st.res.val.chunks)].payload = <<>>

\* C13: for all booleans (has_lipi, has_meta, interleaved), build_header
\* returns 14 bytes: bytes 0-3 "SLBC", bytes 4-7 the version quad 00 00 00 0A,
\* bytes 8-10 zero, byte 11 exactly the OR of 0x80 / 0x40 / 0x20 for the
\* requested options (VEDIC, VYA and the low three bits never set), bytes
\* 12-13 zero; and parse_slbc reads the same three flags back from a
\* container built on that header.
C13_HeaderLayout ==
    /\ pc \in {"header", "framed", "parse_framed"} =>
           /\ Len(data) >= 14
           /\ Slice(data, 0, 4) = <<\h53, \h4C, \h42, \h43>>
           /\ Slice(data, 4, 8) = <<\h00, \h00, \h00, \h0A>>
           /\ Slice(data, 8, 11) = <<0, 0, 0>>
           /\ At(data, 11) = \h80 * input[1] + \h40 * input[2] + \h20 * input[3]
           /\ Slice(data, 11, 14) \in {<<f, 0, 0>> : f \in {0, \h20, \h40, \h60,
                                                           \h80, \hA0, \hC0, \hE0}}
           /\ pc = "header" => Len(data) = 14
    /\ (pc = "parse_framed" /\ st.done) =>
           /\ st.res.ok
           /\ has_lipi(st.res.val.header) = (input[1] = 1)
           /\ has_meta(st.res.val.header) = (input[2] = 1)
           /\ is_interleaved(st.res.val.header) = (input[3] = 1)
           /\ ~is_vedic(st.res.val.header)
           /\ ~has_vya(st.res.val.header)
           /\ st.res.val.header.version = <<\h00, \h00, \h00, \h0A>>
           /\ st.res.val.header.extended_header_len = 0

\* A header built with has_meta alone has been framed and parsed back.
C13_Witness ==
    /\ pc = "parse_framed"
    /\ st.done
    /\ st.res.ok
    /\ input = <<0, 1, 0>>
    /\ st.res.val.header.flags = \h40
    /\ Len(st.res.val.chunks) = 2

(***************************************************************************)
(* numeral.rs.                                                             *)
(***************************************************************************)
DIGIT_WORDS ==
    << <<\h29, \h88, \h1C, \h31, \h40>>,   \* 0: sunya
       <<\h85, \h00, \h40>>,               \* 1: eka
       <<\h1A, \h32, \h44>>,               \* 2: dvi
       <<\h18, \h33, \h44>>,               \* 3: tri
       <<\h08, \h40, \h18, \h48, \h33>>,   \* 4: catur
       <<\h20, \h40, \h0C, \h08, \h40>>,   \* 5: panca
       <<\h2A, \h40, \h2A>>,               \* 6: sas
       <<\h2B, \h40, \h20, \h18, \h40>>,   \* 7: sapta
       <<\h40, \h2A, \h10, \h40>>,         \* 8: asta
       <<\h1C, \h40, \h32, \h40>> >>       \* 9: nava

\* char::is_ascii_digit and char::to_digit(10) on an ASCII digit.
is_ascii_digit(c) == c \in 48..57
to_digit(c) == c - 48

\* The for loop over digit_chars.iter().rev(): the bytes pushed by n turns
\* of it, starting with the k-th digit of the iteration order, each turn
\* pushing PADA_START, the digit's word and PADA_END.  (n turns push what
\* the first n \div 2 turns push, then what the remaining ones push.)
RECURSIVE digit_padas(_, _, _)
digit_padas(order, k, n) ==
    IF n = 0 THEN <<>>
    ELSE IF n = 1
    THEN <<PADA_START>> \o DIGIT_WORDS[order[k] + 1] \o <<PADA_END>>
    ELSE digit_padas(order, k, n \div 2)
         \o digit_padas(order, k + (n \div 2), n - (n \div 2))

encode_numeral(digits, out) ==
    LET digit_chars == [k \in 1..Len(digits) |-> to_digit(digits[k])]
        count == Len(digit_chars)
        bhasha == write_uleb128(Append(out, SANKHYA_START), U64(count))
                  \o digit_padas(Reverse(digit_chars), 1, count)
    IN  Append(bhasha, NUM) \o digit_chars

\* Option<u8>: the digit, or -1 for None.
lookup_digit_word(pada_bytes) ==
    IF \E d \in 0..9 : DIGIT_WORDS[d + 1] = pada_bytes
    THEN CHOOSE d \in 0..9 :
             /\ DIGIT_WORDS[d + 1] = pada_bytes
             /\ \A e \in 0..(d - 1) : DIGIT_WORDS[e + 1] # pada_bytes
    ELSE -1

\* while i < data.len() && data[i] != PADA_END { i += 1 }: where it stops.
find_pada_end(bytes, i) ==
    LET stops == {j \in i..(Len(bytes) - 1) : At(bytes, j) = PADA_END}
    IN  IF stops # {} THEN CHOOSE j \in stops : \A k \in stops : j <= k
        ELSE IF i < Len(bytes) THEN Len(bytes) ELSE i

\* One turn of for _ in 0..count, on the loop state s: the cursor i, the
\* digits pushed so far (units first) and res, None while the loop runs or
\* the early return.
sankhya_turn(bytes, s) ==
    IF s.res # None THEN s
    ELSE IF s.i >= Len(bytes)
    THEN [s EXCEPT !.res = Panic("index out of bounds")]        \* data[i]
    ELSE IF At(bytes, s.i) # PADA_START
    THEN [s EXCEPT !.res = Err(<<"expected PADA_START", s.i>>)]
    ELSE LET pada_start == s.i + 1
             e == find_pada_end(bytes, pada_start)
         IN  IF e >= Len(bytes)
             THEN [s EXCEPT !.res = Err(<<"unterminated digit-pada">>)]
             ELSE LET d == lookup_digit_word(Slice(bytes, pada_start, e))
                  IN  IF d = -1
                      THEN [s EXCEPT !.res = Err(<<"invalid digit-word", pada_start>>)]
                      ELSE [i |-> e + 1, digits |-> Append(s.digits, d), res |-> None]

\* n turns of the loop from state s (the first n \div 2 turns, then the rest).
RECURSIVE sankhya_turns(_, _, _)
sankhya_turns(bytes, s, n) ==
    IF n = 0 THEN s
    ELSE IF n = 1 THEN sankhya_turn(bytes, s)
    ELSE LET mid == sankhya_turns(bytes, s, n \div 2)
         IN  IF mid.res # None THEN mid
             ELSE sankhya_turns(bytes, mid, n - (n \div 2))

\* for _ in 0..count from the cursor i.  A turn that does not return moves
\* the cursor forward by two bytes or more, so a count above the buffer
\* length has returned early by turn Len(bytes) + 1.
\* (Vec::with_capacity(count) before the loop reserves up to 4 GiB for a
\* count read from the payload; the allocation is not modelled.)
sankhya_loop(bytes, i, count) ==
    LET turns == IF U64Gt(count, U64(Len(bytes))) THEN Len(bytes) + 1 ELSE count.lo
        s == sankhya_turns(bytes, [i |-> i, digits |-> <<>>, res |-> None], turns)
    IN  IF s.res # None THEN s.res ELSE Ok([digits |-> s.digits, i |-> s.i])

\* Lines 56-66: the marker and the count.
sankhya_head(bytes, pos) ==
    IF pos >= Len(bytes) THEN Panic("index out of bounds")          \* data[i]
    ELSE IF At(bytes, pos) # SANKHYA_START
    THEN Err(<<"expected SANKHYA_START", pos>>)
    ELSE LET r == read_uleb128(SliceFrom(bytes, pos + 1))
         IN  IF ~r.ok THEN Err(<<"ULEB128 error", pos + 1, r.err>>)
             ELSE Ok([count |-> r.val.value, i |-> pos + 1 + r.val.consumed])

\* A decoder that forgets digits.reverse().
decode_sankhya_no_reverse(bytes, pos) ==
    LET h == sankhya_head(bytes, pos)
    IN  IF ~h.ok THEN h
        ELSE LET l == sankhya_loop(bytes, h.val.i, h.val.count)
             IN  IF ~l.ok THEN l
                 ELSE Ok([digits |-> l.val.digits, consumed |-> l.val.i - pos])

decode_sankhya(bytes, pos) ==
    LET h == sankhya_head(bytes, pos)
    IN  IF ~h.ok THEN h
        ELSE LET l == sankhya_loop(bytes, h.val.i, h.val.count)
             IN  IF ~l.ok THEN l
                 ELSE Ok([digits |-> Reverse(l.val.digits), consumed |-> l.val.i - pos])

\* while i < data.len() && data[i] < 0x10 { i += 1 }: the end of the span.
num_span_end(bytes, i) ==
    LET stops == {j \in i..(Len(bytes) - 1) : At(bytes, j) >= \h10}
    IN  IF stops # {} THEN CHOOSE j \in stops : \A k \in stops : j <= k
        ELSE IF i < Len(bytes) THEN Len(bytes) ELSE i

decode_num(bytes, pos) ==
    IF pos >= Len(bytes) THEN Panic("index out of bounds")          \* data[i]
    ELSE IF At(bytes, pos) # NUM THEN Err(<<"expected NUM", pos>>)
    ELSE LET e == num_span_end(bytes, pos + 1)
         IN  Ok([digits |-> Slice(bytes, pos + 1, e), consumed |-> e - pos])

(***************************************************************************)
(* Specification SpecNumeral: a digit string is typed, encode_numeral      *)
(* writes it into an empty buffer, decode_sankhya reads the buffer at 0.   *)
(***************************************************************************)
LongNumeralLens == {127, 128}

InitNumeral ==
    /\ pc = "input"
    /\ input = <<>>
    /\ data = <<>>
    /\ script = "none"
    /\ st = None

TypeDigit(c) ==
    /\ pc = "input"
    /\ Len(input) < MaxDigits
    /\ input' = Append(input, c)
    /\ UNCHANGED <<pc, data, script, st>>

\* A numeral long enough for its digit count to need the varint's second byte.
LongNumeral(n) ==
    /\ pc = "input"
    /\ input = <<>>
    /\ input' = [k \in 1..n |-> 48 + ((7 * k) % 10)]
    /\ UNCHANGED <<pc, data, script, st>>

EncodeNumeral ==
    /\ pc = "input"
    /\ input # <<>>
    /\ data' = encode_numeral(input, <<>>)
    /\ pc' = "encoded"
    /\ UNCHANGED <<input, script, st>>

DecodeSankhya ==
    /\ pc = "encoded"
    /\ st' = decode_sankhya(data, 0)
    /\ pc' = "decoded"
    /\ UNCHANGED <<input, data, script>>

NextNumeral ==
    \/ \E c \in 48..57 : TypeDigit(c)
    \/ \E n \in LongNumeralLens : LongNumeral(n)
    \/ EncodeNumeral
    \/ DecodeSankhya

SpecNumeral == InitNumeral /\ [][NextNumeral]_vars

\* The bhasha span of a digit-value sequence as the format lays it out: one
\* PADA_START / word / PADA_END triple per digit, last digit first.
RECURSIVE UnitsFirstPadas(_)
UnitsFirstPadas(vals) ==
    IF vals = <<>> THEN <<>>
    ELSE IF Len(vals) = 1
    THEN <<PADA_START>> \o DIGIT_WORDS[vals[1] + 1] \o <<PADA_END>>
    ELSE LET h == Len(vals) \div 2
         IN  UnitsFirstPadas(SubSeq(vals, h + 1, Len(vals)))
             \o UnitsFirstPadas(SubSeq(vals, 1, h))

\* C4: for every non-empty ASCII digit string d, encode_numeral(d) writes
\* SANKHYA_START, the varint digit count, one PADA_START/word/PADA_END triple
\* per digit units first, then NUM and the digit values; decode_sankhya at
\* offset 0 returns the digit values of d left to right and consumes exactly
\* the bytes before the NUM marker.
C4_NumeralRoundTrip ==
    (pc \in {"encoded", "decoded"} /\ input # <<>>) =>
        LET vals == [k \in 1..Len(input) |-> input[k] - 48]
            count == write_uleb128(<<>>, U64(Len(input)))
            span == <<SANKHYA_START>> \o count \o UnitsFirstPadas(vals)
        IN  /\ data = span \o <<NUM>> \o vals
            /\ pc = "decoded" =>
                   /\ st.ok
                   /\ st.val.digits = vals
                   /\ st.val.consumed = Len(span)
                   /\ At(data, st.val.consumed) = NUM

\* "108" has been encoded and decoded back to 1, 0, 8.
C4_Witness ==
    /\ pc = "decoded"
    /\ input = <<49, 48, 56>>
    /\ st.ok
    /\ st.val.digits = <<1, 0, 8>>
    /\ SubSeq(data, 1, 3) = <<SANKHYA_START, 3, PADA_START>>

(***************************************************************************)
(* decoder.rs: lookup tables.  A &'static str is the sequence of its code   *)
(* points; "?" is <<63>>.                                                  *)
(***************************************************************************)
\* b & 0b11_00_11_11: the byte with its accent field (bits 5:4) cleared.
accent_masked(b) == b - ((b \div 16) % 4) * 16

svara_to_iast(b) ==
    LET base == accent_masked(b)
    IN  CASE base = \h40 -> <<97>>            \* a
          [] base = \h80 -> <<257>>           \* a macron
          [] base = \h44 -> <<105>>           \* i
          [] base = \h84 -> <<299>>           \* i macron
          [] base = \h48 -> <<117>>           \* u
          [] base = \h88 -> <<363>>           \* u macron
          [] base = \h4C -> <<7771>>          \* r dot below
          [] base = \h8C -> <<7773>>          \* r dot below macron
          [] base = \h4F -> <<7735>>          \* l dot below
          [] base = \h8F -> <<7737>>          \* l dot below macron
          [] base = \h85 -> <<101>>           \* e
          [] base = \h86 -> <<97, 105>>       \* ai
          [] base = \h89 -> <<111>>           \* o
          [] base = \h8A -> <<97, 117>>       \* au
          [] OTHER -> <<63>>

vyanjana_to_iast(b) ==
    CASE b = \h00 -> <<107>>       [] b = \h01 -> <<107, 104>>
      [] b = \h02 -> <<103>>       [] b = \h03 -> <<103, 104>>
      [] b = \h04 -> <<7749>>
      [] b = \h08 -> <<99>>        [] b = \h09 -> <<99, 104>>
      [] b = \h0A -> <<106>>       [] b = \h0B -> <<106, 104>>
      [] b = \h0C -> <<241>>
      [] b = \h10 -> <<7789>>      [] b = \h11 -> <<7789, 104>>
      [] b = \h12 -> <<7693>>      [] b = \h13 -> <<7693, 104>>
      [] b = \h14 -> <<7751>>
      [] b = \h18 -> <<116>>       [] b = \h19 -> <<116, 104>>
      [] b = \h1A -> <<100>>       [] b = \h1B -> <<100, 104>>
      [] b = \h1C -> <<110>>
      [] b = \h20 -> <<112>>       [] b = \h21 -> <<112, 104>>
      [] b = \h22 -> <<98>>        [] b = \h23 -> <<98, 104>>
      [] b = \h24 -> <<109>>
      [] b = \h29 -> <<347>>       [] b = \h2A -> <<7779>>
      [] b = \h2B -> <<115>>
      [] b = \h31 -> <<121>>       [] b = \h32 -> <<118>>
      [] b = \h33 -> <<114>>       [] b = \h34 -> <<108>>
      [] b = \h38 -> <<104>>       [] b = \h39 -> <<7717>>
      [] b = \h3A -> <<7747>>      [] b = \h3B -> <<7830>>
      [] b = \h3C -> <<7723>>
      [] OTHER -> <<63>>

byte_to_iast(b) ==
    IF is_svara(b) THEN svara_to_iast(b)
    ELSE IF is_vyanjana(b) THEN vyanjana_to_iast(b)
    ELSE <<63>>

\* DEVANAGARI_DIGITS[0] is U+0966; the ten glyphs are consecutive.
DEVANAGARI_DIGITS == [d \in 0..9 |-> 2406 + d]

byte_to_devanagari_consonant(b) ==
    CASE b \in \h00..\h04 -> <<2325 + (b - \h00)>>     \* ka kha ga gha nga
      [] b \in \h08..\h0C -> <<2330 + (b - \h08)>>     \* ca .. nya
      [] b \in \h10..\h14 -> <<2335 + (b - \h10)>>     \* tta .. nna
      [] b \in \h18..\h1C -> <<2340 + (b - \h18)>>     \* ta .. na
      [] b \in \h20..\h24 -> <<2346 + (b - \h20)>>     \* pa .. ma
      [] b = \h29 -> <<2358>>      [] b = \h2A -> <<2359>>
      [] b = \h2B -> <<2360>>
      [] b = \h31 -> <<2351>>      [] b = \h32 -> <<2357>>
      [] b = \h33 -> <<2352>>      [] b = \h34 -> <<2354>>
      [] b = \h38 -> <<2361>>
      [] OTHER -> <<63>>

byte_to_devanagari_independent(b) ==
    LET base == accent_masked(b)
    IN  CASE base = \h40 -> <<2309>>   [] base = \h80 -> <<2310>>
          [] base = \h44 -> <<2311>>   [] base = \h84 -> <<2312>>
          [] base = \h48 -> <<2313>>   [] base = \h88 -> <<2314>>
          [] base = \h4C -> <<2315>>   [] base = \h8C -> <<2400>>
          [] base = \h4F -> <<2316>>   [] base = \h8F -> <<2401>>
          [] base = \h85 -> <<2319>>   [] base = \h86 -> <<2320>>
          [] base = \h89 -> <<2323>>   [] base = \h8A -> <<2324>>
          [] OTHER -> <<63>>

\* A sign table that holds the independent forms.
byte_to_devanagari_matra_independent(b) == byte_to_devanagari_independent(b)

\* Option<&str>: the sign, or the empty text for None.
byte_to_devanagari_matra(b) ==
    LET base == accent_masked(b)
    IN  CASE base = \h80 -> <<2366>>   [] base = \h44 -> <<2367>>
          [] base = \h84 -> <<2368>>   [] base = \h48 -> <<2369>>
          [] base = \h88 -> <<2370>>   [] base = \h4C -> <<2371>>
          [] base = \h8C -> <<2372>>   [] base = \h4F -> <<2402>>
          [] base = \h8F -> <<2403>>   [] base = \h85 -> <<2375>>
          [] base = \h86 -> <<2376>>   [] base = \h89 -> <<2379>>
          [] base = \h8A -> <<2380>>
          [] OTHER -> <<>>

is_postfix_mark(b) == b \in {\h39, \h3A}

postfix_mark_devanagari(b) ==
    CASE b = \h39 -> <<2307>>
      [] b = \h3A -> <<2306>>
      [] OTHER -> <<>>

VIRAMA == <<2381>>

(***************************************************************************)
(* decoder.rs: the two decoders.  The state of a decoder's while loop is   *)
(* the cursor i, the text out, the flag consonant_pending (Devanagari      *)
(* only) and res, None while the loop runs or the early return.            *)
(***************************************************************************)
LoopStart == [i |-> 0, out |-> <<>>, consonant_pending |-> FALSE, res |-> None]

\* i += 1; while i < data.len() && data[i] != META_END { i += 1 }; i += 1
\* from the META_START at i: the cursor after the block.
skip_meta(bytes, i) ==
    LET from == i + 1
        stops == {j \in from..(Len(bytes) - 1) : At(bytes, j) = META_END}
        e == IF stops # {} THEN CHOOSE j \in stops : \A k \in stops : j <= k
             ELSE IF from < Len(bytes) THEN Len(bytes) ELSE from
    IN  e + 1

\* for d in &digits { out.push(char::from_digit(*d as u32, 10).unwrap()) }
push_digits(out, digits) ==
    IF \E k \in 1..Len(digits) : digits[k] >= 10
    THEN Panic("unwrap on None")
    ELSE Ok(out \o [k \in 1..Len(digits) |-> 48 + digits[k]])

\* out.push(DEVANAGARI_DIGITS[data[i] as usize]) for the bytes of a span
\* that starts at cursor i: the text and the cursor after the span.
glyph_span(out, span, i) ==
    IF \E k \in 1..Len(span) : span[k] >= 10
    THEN Panic("index out of bounds")                \* DEVANAGARI_DIGITS[10..15]
    ELSE Ok([out |-> out \o [k \in 1..Len(span) |-> DEVANAGARI_DIGITS[span[k]]],
             i |-> i + Len(span)])

\* while i < data.len() && data[i] < 0x10 { out.push(DEVANAGARI_DIGITS[..]) }
push_glyphs(bytes, i, out) ==
    glyph_span(out, Slice(bytes, i, num_span_end(bytes, i)), i)

\* A decoder that steps over a byte of no class.
unexpected_byte_skipped(s, b) == [s EXCEPT !.i = s.i + 1]

\* return Err(format!("unexpected byte 0x{:02X} at offset {}", b, i))
unexpected_byte(s, b) == [s EXCEPT !.res = Err(<<"unexpected byte", b, s.i>>)]

\* The digits p pushed onto out (or the failed unwrap), the cursor moved to
\* next.
iast_pushed(s, p, next) ==
    IF ~p.ok THEN [s EXCEPT !.res = p]
    ELSE [s EXCEPT !.out = p.val, !.i = next]

\* let (_, num_consumed) = numeral::decode_num(data, i)?; i += num_consumed
iast_num_skipped(s, n) ==
    IF ~n.ok THEN [s EXCEPT !.res = n]
    ELSE [s EXCEPT !.i = s.i + n.val.consumed]

\* if i < data.len() && data[i] == NUM { skip the span }
iast_skip_num(bytes, s) ==
    IF s.res = None /\ s.i < Len(bytes) /\ At(bytes, s.i) = NUM
    THEN iast_num_skipped(s, decode_num(bytes, s.i))
    ELSE s

\* The SANKHYA_START arm, r the result of decode_sankhya(data, i).
iast_sankhya(bytes, s, r) ==
    IF ~r.ok THEN [s EXCEPT !.res = r]
    ELSE iast_skip_num(bytes,
             iast_pushed(s, push_digits(s.out, r.val.digits), s.i + r.val.consumed))

\* The NUM arm, n the result of decode_num(data, i).
iast_num(s, n) ==
    IF ~n.ok THEN [s EXCEPT !.res = n]
    ELSE iast_pushed(s, push_digits(s.out, n.val.digits), s.i + n.val.consumed)

\* One turn of decode_to_iast's while loop on the byte b = data[i].
iast_byte(bytes, s, b) ==
    IF is_bhasha_control(b)
    THEN IF b \in {PADA_START, PADA_END, PHON_START, PHON_END}
         THEN [s EXCEPT !.i = s.i + 1]
         ELSE IF b = META_START THEN [s EXCEPT !.i = skip_meta(bytes, s.i)]
         ELSE IF b = SANKHYA_START THEN iast_sankhya(bytes, s, decode_sankhya(bytes, s.i))
         ELSE [s EXCEPT !.i = s.i + 1]
    ELSE IF is_lipi_control(b)
    THEN IF b = NUM THEN iast_num(s, decode_num(bytes, s.i))
         ELSE [s EXCEPT !.out = s.out \o (CASE b = SPACE -> <<32>>
                                            [] b = DANDA -> <<124>>
                                            [] b = DOUBLE_DANDA -> <<124, 124>>
                                            [] b = AVAGRAHA -> <<39>>
                                            [] OTHER -> <<>>),
                        !.i = s.i + 1]
    ELSE IF is_svara(b) \/ is_vyanjana(b)
    THEN [s EXCEPT !.out = s.out \o byte_to_iast(b), !.i = s.i + 1]
    ELSE unexpected_byte(s, b)

\* One turn of decode_to_iast's while loop, the cursor inside the data.
iast_turn(bytes, s) == iast_byte(bytes, s, At(bytes, s.i))

\* A flush that writes the virama and leaves the flag set.
flush_pending_keeps_flag(s) ==
    IF s.consonant_pending THEN [s EXCEPT !.out = s.out \o VIRAMA] ELSE s

\* if consonant_pending { out.push(virama); consonant_pending = false }
flush_pending(s) ==
    IF s.consonant_pending
    THEN [s EXCEPT !.out = s.out \o VIRAMA, !.consonant_pending = FALSE]
    ELSE s

\* The glyphs g of a NUM span taken into the loop state (or the failed index).
devanagari_glyphs(s, g) ==
    IF ~g.ok THEN [s EXCEPT !.res = g]
    ELSE [s EXCEPT !.out = g.val.out, !.i = g.val.i]

\* if i < data.len() && data[i] == NUM { i += 1; the glyphs of the span }
devanagari_paired_num(bytes, s) ==
    IF s.i < Len(bytes) /\ At(bytes, s.i) = NUM
    THEN devanagari_glyphs(s, push_glyphs(bytes, s.i + 1, s.out))
    ELSE s

\* The SANKHYA_START arm after the flush, r the result of decode_sankhya.
devanagari_sankhya(bytes, s, r) ==
    IF ~r.ok THEN [s EXCEPT !.res = r]
    ELSE devanagari_paired_num(bytes, [s EXCEPT !.i = s.i + r.val.consumed])

\* The lipi-control arm after the flush.
devanagari_lipi(bytes, s, b) ==
    IF b = NUM THEN devanagari_glyphs(s, push_glyphs(bytes, s.i + 1, s.out))
    ELSE [s EXCEPT !.out = s.out \o (CASE b = SPACE -> <<32>>
                                       [] b = DANDA -> <<2404>>
                                       [] b = DOUBLE_DANDA -> <<2405>>
                                       [] b = AVAGRAHA -> <<2365>>
                                       [] OTHER -> <<>>),
                   !.i = s.i + 1]

\* One turn of decode_to_devanagari's while loop on the byte b = data[i].
devanagari_byte(bytes, s, b) ==
    IF is_bhasha_control(b)
    THEN IF b = PADA_END THEN [flush_pending(s) EXCEPT !.i = s.i + 1]
         ELSE IF b = META_START THEN [s EXCEPT !.i = skip_meta(bytes, s.i)]
         ELSE IF b = SANKHYA_START
         THEN devanagari_sankhya(bytes, flush_pending(s), decode_sankhya(bytes, s.i))
         ELSE [s EXCEPT !.i = s.i + 1]
    ELSE IF is_lipi_control(b) THEN devanagari_lipi(bytes, flush_pending(s), b)
    ELSE IF is_svara(b)
    THEN IF s.consonant_pending
         THEN [s EXCEPT !.out = s.out \o (IF b = \h40 THEN <<>>
                                          ELSE byte_to_devanagari_matra(b)),
                        !.consonant_pending = FALSE, !.i = s.i + 1]
         ELSE [s EXCEPT !.out = s.out \o byte_to_devanagari_independent(b),
                        !.i = s.i + 1]
    ELSE IF is_vyanjana(b)
    THEN IF is_postfix_mark(b)
         THEN [s EXCEPT !.out = s.out \o postfix_mark_devanagari(b),
                        !.consonant_pending = FALSE, !.i = s.i + 1]
         ELSE [s EXCEPT !.out = (IF s.consonant_pending THEN s.out \o VIRAMA
                                 ELSE s.out)
                                \o byte_to_devanagari_consonant(b),
                        !.consonant_pending = TRUE, !.i = s.i + 1]
    ELSE unexpected_byte(s, b)

\* One turn of decode_to_devanagari's while loop, the cursor inside the data.
devanagari_turn(bytes, s) == devanagari_byte(bytes, s, At(bytes, s.i))

\* One turn of the loop of the decoder decode_phon selects.
decode_turn(bytes, scr, s) ==
    IF scr = "Iast" THEN iast_turn(bytes, s) ELSE devanagari_turn(bytes, s)

\* What the decoder returns once the loop is left.
decode_return(scr, s) ==
    IF s.res # None THEN s.res
    ELSE IF scr = "Iast" THEN Ok(s.out)
    ELSE Ok(flush_pending(s).out)

\* n turns of while i < data.len() from state s (the first n \div 2 turns,
\* then the rest); a turn after the loop is left changes nothing.
RECURSIVE decode_turns(_, _, _, _)
decode_turns(bytes, scr, s, n) ==
    IF n = 0 THEN s
    ELSE IF n = 1
    THEN IF s.res = None /\ s.i < Len(bytes) THEN decode_turn(bytes, scr, s) ELSE s
    ELSE LET mid == decode_turns(bytes, scr, s, n \div 2)
         IN  IF mid.res # None THEN mid
             ELSE decode_turns(bytes, scr, mid, n - (n \div 2))

\* Every turn moves the cursor forward or returns, so the loop is left
\* within Len(data) turns.
decode_to_iast(bytes) ==
    decode_return("Iast", decode_turns(bytes, "Iast", LoopStart, Len(bytes)))

decode_to_devanagari(bytes) ==
    decode_return("Devanagari", decode_turns(bytes, "Devanagari", LoopStart, Len(bytes)))

decode_phon(payload, scr) ==
    IF scr = "Iast" THEN decode_to_iast(payload) ELSE decode_to_devanagari(payload)

(***************************************************************************)
(* encoder.rs: the IAST tokenizer.  A Token is a record: its variant t,    *)
(* the byte of a Svara or Vyanjana, the digit chars of a Numeral.          *)
(***************************************************************************)
Svara(b) == [t |-> "Svara", b |-> b, digits |-> <<>>]
Vyanjana(b) == [t |-> "Vyanjana", b |-> b, digits |-> <<>>]
Space == [t |-> "Space", b |-> 0, digits |-> <<>>]
Danda == [t |-> "Danda", b |-> 0, digits |-> <<>>]
DoubleDanda == [t |-> "DoubleDanda", b |-> 0, digits |-> <<>>]
Avagraha == [t |-> "Avagraha", b |-> 0, digits |-> <<>>]
Numeral(digits) == [t |-> "Numeral", b |-> 0, digits |-> digits]
\* Option<Token>::None
NoToken == [t |-> "None", b |-> 0, digits |-> <<>>]

\* An aspirate table that knows the voiceless stops only.
aspirated_voiceless_only(ch) ==
    CASE ch = 107 -> \h01
      [] ch = 99 -> \h09
      [] ch = 7789 -> \h11
      [] ch = 116 -> \h19
      [] ch = 112 -> \h21
      [] OTHER -> -1

\* The aspirated byte of the stop ch followed by 'h', or -1 for None.
aspirated(ch) ==
    CASE ch = 107 -> \h01      \* k
      [] ch = 103 -> \h03      \* g
      [] ch = 99 -> \h09       \* c
      [] ch = 106 -> \h0B      \* j
      [] ch = 7789 -> \h11     \* t dot below
      [] ch = 7693 -> \h13     \* d dot below
      [] ch = 116 -> \h19      \* t
      [] ch = 100 -> \h1B      \* d
      [] ch = 112 -> \h21      \* p
      [] ch = 98 -> \h23       \* b
      [] OTHER -> -1

match_single(ch) ==
    CASE ch = 97 -> Svara(\h40)        [] ch = 257 -> Svara(\h80)
      [] ch = 105 -> Svara(\h44)       [] ch = 299 -> Svara(\h84)
      [] ch = 117 -> Svara(\h48)       [] ch = 363 -> Svara(\h88)
      [] ch = 7771 -> Svara(\h4C)      [] ch = 7773 -> Svara(\h8C)
      [] ch = 7735 -> Svara(\h4F)      [] ch = 7737 -> Svara(\h8F)
      [] ch = 101 -> Svara(\h85)       [] ch = 111 -> Svara(\h89)
      [] ch = 107 -> Vyanjana(\h00)    [] ch = 103 -> Vyanjana(\h02)
      [] ch = 7749 -> Vyanjana(\h04)
      [] ch = 99 -> Vyanjana(\h08)     [] ch = 106 -> Vyanjana(\h0A)
      [] ch = 241 -> Vyanjana(\h0C)
      [] ch = 7789 -> Vyanjana(\h10)   [] ch = 7693 -> Vyanjana(\h12)
      [] ch = 7751 -> Vyanjana(\h14)
      [] ch = 116 -> Vyanjana(\h18)    [] ch = 100 -> Vyanjana(\h1A)
      [] ch = 110 -> Vyanjana(\h1C)
      [] ch = 112 -> Vyanjana(\h20)    [] ch = 98 -> Vyanjana(\h22)
      [] ch = 109 -> Vyanjana(\h24)
      [] ch = 347 -> Vyanjana(\h29)    [] ch = 7779 -> Vyanjana(\h2A)
      [] ch = 115 -> Vyanjana(\h2B)
      [] ch = 121 -> Vyanjana(\h31)    [] ch = 118 -> Vyanjana(\h32)
      [] ch = 114 -> Vyanjana(\h33)    [] ch = 108 -> Vyanjana(\h34)
      [] ch = 104 -> Vyanjana(\h38)    [] ch = 7717 -> Vyanjana(\h39)
      [] ch = 7747 -> Vyanjana(\h3A)   [] ch = 7830 -> Vyanjana(\h3B)
      [] ch = 7723 -> Vyanjana(\h3C)
      [] OTHER -> NoToken

\* while i < len && chars[i].is_ascii_digit() { i += 1 }: where it stops.
digit_run_end(chars, i) ==
    LET stops == {j \in i..(Len(chars) - 1) : ~is_ascii_digit(At(chars, j))}
    IN  IF stops # {} THEN CHOOSE j \in stops : \A k \in stops : j <= k
        ELSE IF i < Len(chars) THEN Len(chars) ELSE i

\* tokens.push(tok); i += n
pushed(s, tok, n) == [s EXCEPT !.tokens = Append(s.tokens, tok), !.i = s.i + n]

\* A fallback that steps over a char no rule matches.
single_skipping(s, ch, tok) ==
    IF tok # NoToken THEN pushed(s, tok, 1)
    ELSE [s EXCEPT !.i = s.i + 1]

\* match match_single(ch): the token is pushed, or the tokenizer returns Err.
single(s, ch, tok) ==
    IF tok # NoToken THEN pushed(s, tok, 1)
    ELSE [s EXCEPT !.res = Err(<<"unrecognized IAST character", ch, s.i>>)]

\* A turn that pushes a word space for every space, tab or newline.
tokenize_char_no_collapse(chars, s, ch, next) ==
    IF ch = 13 THEN [s EXCEPT !.i = s.i + 1]
    ELSE IF ch \in {32, 9, 10} THEN pushed(s, Space, 1)
    ELSE IF ch = 124 /\ next = 124 THEN pushed(s, DoubleDanda, 2)
    ELSE IF ch = 124 THEN pushed(s, Danda, 1)
    ELSE IF ch \in {39, 2365} THEN pushed(s, Avagraha, 1)
    ELSE IF is_ascii_digit(ch)
    THEN [s EXCEPT !.tokens = Append(s.tokens,
                                     Numeral(Slice(chars, s.i, digit_run_end(chars, s.i)))),
                   !.i = digit_run_end(chars, s.i)]
    ELSE IF ch = 97 /\ next = 105 THEN pushed(s, Svara(\h86), 2)
    ELSE IF ch = 97 /\ next = 117 THEN pushed(s, Svara(\h8A), 2)
    ELSE IF next = 104 /\ aspirated(ch) # -1 THEN pushed(s, Vyanjana(aspirated(ch)), 2)
    ELSE single(s, ch, match_single(ch))

\* One turn of tokenize_iast's while loop on ch = chars[i] and the char after
\* it (-1 for None).  The loop state is the cursor i, the tokens pushed and
\* res, None while the loop runs or the early return.
tokenize_char(chars, s, ch, next) ==
    IF ch = 13 THEN [s EXCEPT !.i = s.i + 1]
    ELSE IF ch \in {32, 9, 10}
    THEN IF s.tokens # <<>> /\ s.tokens[Len(s.tokens)] = Space
         THEN [s EXCEPT !.i = s.i + 1]
         ELSE pushed(s, Space, 1)
    ELSE IF ch = 124 /\ next = 124 THEN pushed(s, DoubleDanda, 2)
    ELSE IF ch = 124 THEN pushed(s, Danda, 1)
    ELSE IF ch \in {39, 2365} THEN pushed(s, Avagraha, 1)
    ELSE IF is_ascii_digit(ch)
    THEN [s EXCEPT !.tokens = Append(s.tokens,
                                     Numeral(Slice(chars, s.i, digit_run_end(chars, s.i)))),
                   !.i = digit_run_end(chars, s.i)]
    ELSE IF ch = 97 /\ next = 105 THEN pushed(s, Svara(\h86), 2)
    ELSE IF ch = 97 /\ next = 117 THEN pushed(s, Svara(\h8A), 2)
    ELSE IF next = 104 /\ aspirated(ch) # -1 THEN pushed(s, Vyanjana(aspirated(ch)), 2)
    ELSE single(s, ch, match_single(ch))

tokenize_turn(chars, s) ==
    tokenize_char(chars, s, At(chars, s.i),
                  IF s.i + 1 < Len(chars) THEN At(chars, s.i + 1) ELSE -1)

\* n turns of while i < len from state s (the first n \div 2 turns, then the
\* rest); a turn after the loop is left changes nothing.
RECURSIVE tokenize_turns(_, _, _)
tokenize_turns(chars, s, n) ==
    IF n = 0 THEN s
    ELSE IF n = 1
    THEN IF s.res = None /\ s.i < Len(chars) THEN tokenize_turn(chars, s) ELSE s
    ELSE LET mid == tokenize_turns(chars, s, n \div 2)
         IN  IF mid.res # None THEN mid
             ELSE tokenize_turns(chars, mid, n - (n \div 2))

\* Ok(tokens), or the early return.
tokenize_return(s) == IF s.res # None THEN s.res ELSE Ok(s.tokens)

\* Every turn moves the cursor forward or returns, so the loop is left
\* within Len(chars) turns.
tokenize_iast(chars) ==
    tokenize_return(tokenize_turns(chars, [i |-> 0, tokens |-> <<>>, res |-> None],
                                   Len(chars)))

(***************************************************************************)
(* encoder.rs: tokens_to_bytes and encode_iast.  The state of the for loop  *)
(* is the buffer out and the flag in_pada.                                 *)
(***************************************************************************)
\* if !in_pada { out.push(PADA_START); in_pada = true }
open_pada(s) ==
    IF ~s.in_pada THEN [out |-> Append(s.out, PADA_START), in_pada |-> TRUE] ELSE s

\* A close that clears the flag and writes no PADA_END.
close_pada_silent(s) == [s EXCEPT !.in_pada = FALSE]

\* if in_pada { out.push(PADA_END); in_pada = false }
close_pada(s) ==
    IF s.in_pada THEN [out |-> Append(s.out, PADA_END), in_pada |-> FALSE] ELSE s

\* out.push(b)
push_byte(s, b) == [s EXCEPT !.out = Append(s.out, b)]

\* The body of for token in tokens.
token_bytes(s, token) ==
    CASE token.t \in {"Svara", "Vyanjana"} -> push_byte(open_pada(s), token.b)
      [] token.t = "Space" -> push_byte(close_pada(s), SPACE)
      [] token.t = "Danda" -> push_byte(close_pada(s), DANDA)
      [] token.t = "DoubleDanda" -> push_byte(close_pada(s), DOUBLE_DANDA)
      [] token.t = "Avagraha" -> push_byte(open_pada(s), AVAGRAHA)
      [] token.t = "Numeral" ->
             [close_pada(s) EXCEPT !.out = encode_numeral(token.digits, close_pada(s).out)]

\* n turns of the for loop from state s, starting with the k-th token (the
\* first n \div 2 turns, then the rest).
RECURSIVE tokens_loop(_, _, _, _)
tokens_loop(tokens, s, k, n) ==
    IF n = 0 THEN s
    ELSE IF n = 1 THEN token_bytes(s, tokens[k])
    ELSE tokens_loop(tokens, tokens_loop(tokens, s, k, n \div 2),
                     k + (n \div 2), n - (n \div 2))

tokens_to_bytes(tokens) ==
    close_pada(tokens_loop(tokens, [out |-> <<>>, in_pada |-> FALSE], 1, Len(tokens))).out

\* let tokens = tokenize_iast(input)?; Ok(tokens_to_bytes(&tokens))
encoded(r) == IF ~r.ok THEN r ELSE Ok(tokens_to_bytes(r.val))

encode_iast(chars) == encoded(tokenize_iast(chars))

(***************************************************************************)
(* Specification SpecDecode: a PHON payload is put together from bytes of  *)
(* every class and from encoded numerals, then decode_phon reads it for    *)
(* the chosen script, in one call or turn by turn of its while loop.       *)
(***************************************************************************)
\* Bytes of no class: column 5, below and above the NUM span's 0x10 limit.
ReservedBytes == {\h05, \h0D, \h35}

PayloadAlphabet ==
    {PADA_START, PADA_END, META_START, META_END, SANKHYA_START,
     NUM, SPACE, DANDA, \h01, \h0A, \h39, \h40, \h84} \cup ReservedBytes

InitDecode ==
    /\ pc = "input"
    /\ input = 0
    /\ data = <<>>
    /\ script \in {"Iast", "Devanagari"}
    /\ st = None

AppendByte(b) ==
    /\ pc = "input"
    /\ input < MaxPieces
    /\ data' = Append(data, b)
    /\ input' = input + 1
    /\ UNCHANGED <<pc, script, st>>

\* The bytes the encoder writes for the one-digit numeral d.
AppendNumeral(d) ==
    /\ pc = "input"
    /\ input < MaxPieces
    /\ data' = encode_numeral(<<48 + d>>, data)
    /\ input' = input + 1
    /\ UNCHANGED <<pc, script, st>>

\* The bytes the encoder writes for the word of one consonant and one vowel.
SyllableConsonants == {\h00, \h0B, \h2A, \h38}
SyllableVowels == {\h40, \h44, \h8C, \h86}
AppendSyllable(c, v) ==
    /\ pc = "input"
    /\ data = <<>>
    /\ data' = tokens_to_bytes(<<Vyanjana(c), Svara(v)>>)
    /\ input' = input + 1
    /\ UNCHANGED <<pc, script, st>>

DecodePhon ==
    /\ pc = "input"
    /\ st' = decode_phon(data, script)
    /\ pc' = "decoded"
    /\ UNCHANGED <<input, data, script>>

DecodeBegin ==
    /\ pc = "input"
    /\ st' = LoopStart
    /\ pc' = "decoding"
    /\ UNCHANGED <<input, data, script>>

\* What a turn leaves: the loop state, or the value of its early return.
after_turn(s) == IF s.res # None THEN s.res ELSE s

\* One turn of the while loop; an early return ends the call.
DecodeTurn ==
    /\ pc = "decoding"
    /\ st.i < Len(data)
    /\ st' = after_turn(decode_turn(data, script, st))
    /\ pc' = IF decode_turn(data, script, st).res # None THEN "decoded" ELSE pc
    /\ UNCHANGED <<input, data, script>>

\* The loop condition fails: the code after the loop.
DecodeReturn ==
    /\ pc = "decoding"
    /\ st.i >= Len(data)
    /\ st' = decode_return(script, st)
    /\ pc' = "decoded"
    /\ UNCHANGED <<input, data, script>>

NextDecode ==
    \/ \E b \in PayloadAlphabet : AppendByte(b)
    \/ \E d \in {1, 8} : AppendNumeral(d)
    \/ \E c \in SyllableConsonants, v \in SyllableVowels : AppendSyllable(c, v)
    \/ DecodePhon
    \/ DecodeBegin
    \/ DecodeTurn
    \/ DecodeReturn

SpecDecode == InitDecode /\ [][NextDecode]_vars

\* The loop taken turn by turn returns what the call returns.
TurnsAgreeWithCall == pc = "decoded" => st = decode_phon(data, script)

\* C6: decode_phon is total: for every byte sequence and either script it
\* returns a text or a DecodeError value and never aborts (no out-of-range
\* read of the payload or of the digit-glyph table, no failed
\* digit-to-character conversion).
C6_DecodeTotal == pc = "decoded" => ~IsPanic(st)

Unclassified(b) ==
    ~is_svara(b) /\ ~is_vyanjana(b) /\ ~is_bhasha_control(b) /\ ~is_lipi_control(b)

\* C7 as stated: whenever the payload holds a byte of no class, at any
\* position, a decode_phon that returns has failed with the error citing
\* such a byte and its offset (a call that aborts is C6's subject).
C7_UnclassifiedAnywhere ==
    (/\ pc = "decoded"
     /\ ~IsPanic(st)
     /\ \E k \in 0..(Len(data) - 1) : Unclassified(At(data, k)))
    => /\ ~st.ok
       /\ \E k \in 0..(Len(data) - 1) :
              /\ Unclassified(At(data, k))
              /\ st.err = <<"unexpected byte", At(data, k), k>>

\* C7 amended: whenever the decoder's main loop, for either script, takes a
\* byte of no class as its current byte (the byte is not consumed as part of
\* a META block, a SANKHYA span or a NUM span), decode_phon fails with the
\* error citing that byte's value and offset and returns no text.
C7_UnclassifiedAtCursor ==
    [][(/\ pc = "decoding"
        /\ st.i < Len(data)
        /\ Unclassified(At(data, st.i)))
       => (/\ pc' = "decoded"
           /\ st' = Err(<<"unexpected byte", At(data, st.i), st.i>>))]_vars

\* A word space, then byte 0x05 at offset 1: the Devanagari decode has failed
\* citing 0x05 at 1, the space it had written is not returned.
C7_Witness ==
    /\ pc = "decoded"
    /\ script = "Devanagari"
    /\ data = <<SPACE, \h05>>
    /\ st = Err(<<"unexpected byte", \h05, 1>>)

(***************************************************************************)
(* Specification SpecCodec: a text is typed, encode_iast encodes it and    *)
(* decode_phon decodes the bytes for the chosen script.                    *)
(***************************************************************************)
IastVowels == {97, 257, 105, 299, 117, 363, 7771, 7773, 7735, 7737, 101, 111}

IastConsonants ==
    {107, 103, 7749, 99, 106, 241, 7789, 7693, 7751, 116, 100, 110, 112, 98, 109,
     347, 7779, 115, 121, 118, 114, 108, 104, 7717, 7747, 7830, 7723}

\* space, tab, newline, carriage return
Whitespace == {32, 9, 10, 13}

\* The chars the tokenizer has a rule for: vowels, consonants, whitespace,
\* '|', the apostrophe and the Devanagari avagraha, ASCII digits.
IastAlphabet ==
    IastVowels \cup IastConsonants \cup Whitespace \cup {124, 39, 2365} \cup (48..57)

\* The alphabet and 'x', a char no rule matches.
TypedChars == IastAlphabet \cup {120}

\* The chars typed after the first two.
LaterChars == {97, 105, 107, 104, 32, 124, 39, 49, 120}

InitCodec ==
    /\ pc = "input"
    /\ input = <<>>
    /\ data = <<>>
    /\ script \in {"Iast", "Devanagari"}
    /\ st = None

TypeChar(c) ==
    /\ pc = "input"
    /\ Len(input) < MaxText
    /\ Len(input) >= 2 => c \in LaterChars
    /\ input' = Append(input, c)
    /\ UNCHANGED <<pc, data, script, st>>

EncodeIast ==
    /\ pc = "input"
    /\ st' = encode_iast(input)
    /\ data' = st'.val
    /\ pc' = IF st'.ok THEN "encoded" ELSE "rejected"
    /\ UNCHANGED <<input, script>>

Decode ==
    /\ pc = "encoded"
    /\ st' = decode_phon(data, script)
    /\ pc' = "decoded"
    /\ UNCHANGED <<input, data, script>>

NextCodec ==
    \/ \E c \in TypedChars : TypeChar(c)
    \/ EncodeIast
    \/ Decode

SpecCodec == InitCodec /\ [][NextCodec]_vars

\* The texts the tokenizer's rules leave as they are: no carriage return, no
\* tab or newline, no Devanagari avagraha, no space after a space.
Unnormalized(text) ==
    \/ \E k \in 1..Len(text) : text[k] \in {13, 9, 10, 2365}
    \/ \E k \in 1..(Len(text) - 1) : text[k] = 32 /\ text[k + 1] = 32

\* C1: for every string s built only from the chars the tokenizer accepts,
\* encode_iast(s) succeeds and decode_phon(encode_iast(s), Iast) returns
\* exactly s.  Stated for the strings the tokenizer's whitespace and avagraha
\* rules do not rewrite; on a rewritten string the decoded text differs by
\* those rules alone.
C1_IastRoundTrip ==
    (/\ \A k \in 1..Len(input) : input[k] \in IastAlphabet
     /\ ~Unnormalized(input))
    => /\ pc # "rejected"
       /\ (pc = "decoded" /\ script = "Iast") => (st.ok /\ st.val = input)

(***************************************************************************)
(* transform.rs: algebraic operations on single bytes.  A TransformResult  *)
(* is the record [input_byte, output_byte, operation, input_iast,          *)
(* output_iast]; operation names are written without their diacritics, and *)
(* an error message is the tuple of its fixed text and the byte it cites.  *)
(***************************************************************************)
RECURSIVE BitAnd(_, _)
BitAnd(a, b) ==
    IF a = 0 \/ b = 0 THEN 0
    ELSE (IF a % 2 = 1 /\ b % 2 = 1 THEN 1 ELSE 0) + 2 * BitAnd(a \div 2, b \div 2)

RECURSIVE BitXor(_, _)
BitXor(a, b) ==
    IF a = 0 THEN b
    ELSE IF b = 0 THEN a
    ELSE (IF a % 2 # b % 2 THEN 1 ELSE 0) + 2 * BitXor(a \div 2, b \div 2)

make_svara_result(in, out, op) ==
    [input_byte |-> in,
     output_byte |-> out,
     operation |-> op,
     input_iast |-> byte_to_iast(in),
     output_iast |-> byte_to_iast(out)]

\* A guna that leaves the quantity of its input as it is.
guna_keeps_quantity(b) ==
    IF ~is_svara(b)
    THEN Err(<<"is not a svara", b>>)
    ELSE IF svara_s(b) = 0
    THEN Err(<<"a-series has no guna transformation">>)
    ELSE Ok(make_svara_result(b,
             BitOr(BitOr(BitOr(svara_q(b) * 64, svara_a(b) * 16), svara_s(b) * 4), 1),
             "guna"))

guna(b) ==
    IF ~is_svara(b)
    THEN Err(<<"is not a svara", b>>)
    ELSE IF svara_s(b) = 0
    THEN Err(<<"a-series has no guna transformation">>)
    ELSE Ok(make_svara_result(b,
             BitOr(BitOr(BitOr(2 * 64, svara_a(b) * 16), svara_s(b) * 4), 1),
             "guna"))

vrddhi(b) ==
    IF ~is_svara(b)
    THEN Err(<<"is not a svara", b>>)
    ELSE IF svara_s(b) = 0
    THEN Ok(make_svara_result(b,
             BitOr(BitOr(2 * 64, svara_a(b) * 16), 2),
             "vrddhi"))
    ELSE Ok(make_svara_result(b,
             BitOr(BitOr(BitOr(2 * 64, svara_a(b) * 16), svara_s(b) * 4), 2),
             "vrddhi"))

dirgha(b) ==
    IF ~is_svara(b)
    THEN Err(<<"is not a svara", b>>)
    ELSE Ok(make_svara_result(b, BitOr(BitAnd(b, \h3F), 2 * 64), "dirgha"))

\* A hrasva whose mask also clears the accent field.
hrasva_clears_accent(b) ==
    IF ~is_svara(b)
    THEN Err(<<"is not a svara", b>>)
    ELSE Ok(make_svara_result(b, BitOr(BitAnd(b, \h0F), 1 * 64), "hrasva"))

hrasva(b) ==
    IF ~is_svara(b)
    THEN Err(<<"is not a svara", b>>)
    ELSE Ok(make_svara_result(b, BitOr(BitAnd(b, \h3F), 1 * 64), "hrasva"))

\* A savarna_dirgha that takes the accent of its second operand.
savarna_dirgha_second_accent(a, b) ==
    IF ~is_svara(a) \/ ~is_svara(b)
    THEN Err(<<"both inputs must be svaras">>)
    ELSE IF svara_s(a) # svara_s(b)
    THEN Err(<<"svaras are not savarna (different series)">>)
    ELSE LET result == BitOr(BitOr(2 * 64, svara_a(b) * 16), svara_s(a) * 4)
         IN  Ok([input_byte |-> a,
                 output_byte |-> result,
                 operation |-> "savarna-dirgha",
                 input_iast |-> byte_to_iast(a) \o <<32, 43, 32>> \o byte_to_iast(b),
                 output_iast |-> byte_to_iast(result)])

savarna_dirgha(a, b) ==
    IF ~is_svara(a) \/ ~is_svara(b)
    THEN Err(<<"both inputs must be svaras">>)
    ELSE IF svara_s(a) # svara_s(b)
    THEN Err(<<"svaras are not savarna (different series)">>)
    ELSE LET result == BitOr(BitOr(2 * 64, svara_a(a) * 16), svara_s(a) * 4)
         IN  Ok([input_byte |-> a,
                 output_byte |-> result,
                 operation |-> "savarna-dirgha",
                 input_iast |-> byte_to_iast(a) \o <<32, 43, 32>> \o byte_to_iast(b),
                 output_iast |-> byte_to_iast(result)])

\* A precondition that looks at the place alone, whatever the column.
require_varga_any_column(b, op) ==
    IF ~((b \div 64) = 0 /\ place(b) <= 4)
    THEN Err(<<"is not a varga consonant", b, op>>)
    ELSE Ok(<<>>)

require_varga(b, op) ==
    IF ~is_varga(b)
    THEN Err(<<"is not a varga consonant", b, op>>)
    ELSE Ok(<<>>)

make_vyanjana_result(in, out, op) ==
    [input_byte |-> in,
     output_byte |-> out,
     operation |-> op,
     input_iast |-> byte_to_iast(in),
     output_iast |-> byte_to_iast(out)]

jastva(b) ==
    IF ~require_varga(b, "jastva").ok
    THEN require_varga(b, "jastva")
    ELSE Ok(make_vyanjana_result(b, BitOr(BitAnd(b, \hF8), 2), "jastva"))

toggle_voice(b) ==
    IF ~require_varga(b, "toggle voice").ok
    THEN require_varga(b, "toggle voice")
    ELSE Ok(make_vyanjana_result(b, BitXor(b, 2), "toggle voice"))

toggle_aspiration(b) ==
    IF ~require_varga(b, "toggle aspiration").ok
    THEN require_varga(b, "toggle aspiration")
    ELSE Ok(make_vyanjana_result(b, BitXor(b, 1), "toggle aspiration"))

make_nasal(b) ==
    IF ~require_varga(b, "make nasal").ok
    THEN require_varga(b, "make nasal")
    ELSE Ok(make_vyanjana_result(b, BitOr(BitAnd(b, \hF8), 4), "make nasal"))

homorganic_nasal(target) ==
    IF ~require_varga(target, "homorganic nasal").ok
    THEN require_varga(target, "homorganic nasal")
    ELSE Ok(make_vyanjana_result(target, BitOr(BitAnd(target, \hF8), 4),
                                 "homorganic nasal"))

samprasarana_to_svara(b) ==
    IF b \notin {\h31, \h32, \h33, \h34}
    THEN Err(<<"is not a sonorant (ya/va/ra/la)", b>>)
    ELSE LET result == CASE b = \h31 -> \h44
                         [] b = \h32 -> \h48
                         [] b = \h33 -> \h4C
                         [] b = \h34 -> \h4F
         IN  Ok([input_byte |-> b,
                 output_byte |-> result,
                 operation |-> "samprasarana (->svara)",
                 input_iast |-> byte_to_iast(b),
                 output_iast |-> byte_to_iast(result)])

\* A reverse table that is looked up with the accent field cleared.
samprasarana_to_sonorant_any_accent(b) ==
    IF accent_masked(b) \notin {\h44, \h48, \h4C, \h4F}
    THEN Err(<<"is not a samprasarana-eligible svara", b>>)
    ELSE LET result == CASE accent_masked(b) = \h44 -> \h31
                         [] accent_masked(b) = \h48 -> \h32
                         [] accent_masked(b) = \h4C -> \h33
                         [] accent_masked(b) = \h4F -> \h34
         IN  Ok([input_byte |-> b,
                 output_byte |-> result,
                 operation |-> "samprasarana (->sonorant)",
                 input_iast |-> byte_to_iast(b),
                 output_iast |-> byte_to_iast(result)])

samprasarana_to_sonorant(b) ==
    IF b \notin {\h44, \h48, \h4C, \h4F}
    THEN Err(<<"is not a samprasarana-eligible svara", b>>)
    ELSE LET result == CASE b = \h44 -> \h31
                         [] b = \h48 -> \h32
                         [] b = \h4C -> \h33
                         [] b = \h4F -> \h34
         IN  Ok([input_byte |-> b,
                 output_byte |-> result,
                 operation |-> "samprasarana (->sonorant)",
                 input_iast |-> byte_to_iast(b),
                 output_iast |-> byte_to_iast(result)])

\* The one-operand operations, by the name the command line gives them.
OneByteOps ==
    {"guna", "vrddhi", "dirgha", "hrasva", "jastva", "toggle-voice",
     "toggle-aspiration", "nasal", "homorganic-nasal", "samprasarana-svara",
     "samprasarana-sonorant"}

apply_op(op, b) ==
    CASE op = "guna" -> guna(b)
      [] op = "vrddhi" -> vrddhi(b)
      [] op = "dirgha" -> dirgha(b)
      [] op = "hrasva" -> hrasva(b)
      [] op = "jastva" -> jastva(b)
      [] op = "toggle-voice" -> toggle_voice(b)
      [] op = "toggle-aspiration" -> toggle_aspiration(b)
      [] op = "nasal" -> make_nasal(b)
      [] op = "homorganic-nasal" -> homorganic_nasal(b)
      [] op = "samprasarana-svara" -> samprasarana_to_svara(b)
      [] op = "samprasarana-sonorant" -> samprasarana_to_sonorant(b)

(***************************************************************************)
(* Specification SpecTransform: one or two operand bytes are chosen, an    *)
(* operation is applied to them, and an operation may then be applied to   *)
(* the byte that came out.  input holds the operand bytes, script the      *)
(* operation last applied, data the bytes that operations returned before  *)
(* the last one, st the last Result.                                       *)
(***************************************************************************)
InitTransform ==
    /\ pc = "operand"
    /\ input = <<>>
    /\ data = <<>>
    /\ script = "none"
    /\ st = None

Operand(b) ==
    /\ pc = "operand"
    /\ Len(input) < 2
    /\ input' = Append(input, b)
    /\ UNCHANGED <<pc, data, script, st>>

Transform(op) ==
    /\ pc = "operand"
    /\ Len(input) = 1
    /\ st' = apply_op(op, input[1])
    /\ script' = op
    /\ pc' = "applied"
    /\ UNCHANGED <<input, data>>

SavarnaDirgha ==
    /\ pc = "operand"
    /\ Len(input) = 2
    /\ st' = savarna_dirgha(input[1], input[2])
    /\ script' = "savarna-dirgha"
    /\ pc' = "applied"
    /\ UNCHANGED <<input, data>>

\* An operation applied to the output byte of the one before.
TransformOutput(op) ==
    /\ pc = "applied"
    /\ Len(input) = 1
    /\ st.ok
    /\ st' = apply_op(op, st.val.output_byte)
    /\ data' = <<st.val.output_byte>>
    /\ script' = op
    /\ pc' = "reapplied"
    /\ UNCHANGED input

NextTransform ==
    \/ \E b \in Byte : Operand(b)
    \/ \E op \in OneByteOps : Transform(op)
    \/ SavarnaDirgha
    \/ \E op \in OneByteOps : TransformOutput(op)

SpecTransform == InitTransform /\ [][NextTransform]_vars

\* The byte the last operation was applied to.
LastOperand == IF pc = "reapplied" THEN data[1] ELSE input[1]

\* C14: for every svara byte b, whatever its accent, and each of guna,
\* vrddhi, dirgha, hrasva that succeeds on b, the accent field (bits 5:4) of
\* the output byte equals the accent field of b, and the output byte is again
\* a svara.
C14_AccentPreserved ==
    (/\ pc \in {"applied", "reapplied"}
     /\ script \in {"guna", "vrddhi", "dirgha", "hrasva"}
     /\ is_svara(LastOperand)
     /\ st.ok)
    => /\ svara_a(st.val.output_byte) = svara_a(LastOperand)
       /\ BitAnd(st.val.output_byte, \h30) = BitAnd(LastOperand, \h30)
       /\ is_svara(st.val.output_byte)

\* hrasva has been applied to a long i that carries accent 3.
C14_Witness ==
    /\ pc = "applied"
    /\ script = "hrasva"
    /\ input = <<\hB4>>
    /\ st.ok
    /\ st.val.output_byte = \h74

\* C15: for every byte b, guna(b) fails if b is not a svara or if b's series
\* is the a-series; otherwise it succeeds with an output whose Q is dirgha
\* (10), whose G is guna (01), and whose A and S are those of b; so the
\* neutral short i gives e (0x85) and the neutral short u gives o (0x89).
C15_Guna ==
    (pc \in {"applied", "reapplied"} /\ script = "guna") =>
        LET b == LastOperand
        IN  /\ (~is_svara(b) \/ svara_s(b) = 0) => (~st.ok /\ st.val = <<>>)
            /\ ~is_svara(b) => st.err = <<"is not a svara", b>>
            /\ (is_svara(b) /\ svara_s(b) = 0) =>
                   st.err = <<"a-series has no guna transformation">>
            /\ (is_svara(b) /\ svara_s(b) # 0) =>
                   /\ st.ok
                   /\ svara_q(st.val.output_byte) = 2
                   /\ svara_g(st.val.output_byte) = 1
                   /\ svara_a(st.val.output_byte) = svara_a(b)
                   /\ svara_s(st.val.output_byte) = svara_s(b)
                   /\ st.val.output_byte \in 0..255
                   /\ st.val.input_byte = b
            /\ b = \h44 => (st.ok /\ st.val.output_byte = \h85)
            /\ b = \h48 => (st.ok /\ st.val.output_byte = \h89)

\* guna has been applied to the neutral short u and has given o.
C15_Witness ==
    /\ pc = "applied"
    /\ script = "guna"
    /\ input = <<\h48>>
    /\ st.ok
    /\ st.val.output_byte = \h89
    /\ st.val.output_iast = <<111>>

\* C16: vrddhi applied to the short a byte (0x40, any accent) yields the byte
\* of long a: the byte the tokenizer assigns to that letter (0x80, with the
\* same accent), which the decoder renders as long a; for the other series
\* vrddhi yields Q = dirgha, G = vrddhi with A and S preserved, so that i
\* gives ai (0x86) and u gives au (0x8A).
C16_VrddhiOfA ==
    (pc \in {"applied", "reapplied"} /\ script = "vrddhi") =>
        LET b == LastOperand
        IN  /\ accent_masked(b) = \h40 =>
                   /\ st.ok
                   /\ accent_masked(st.val.output_byte) = match_single(257).b
                   /\ svara_a(st.val.output_byte) = svara_a(b)
                   /\ st.val.output_iast = <<257>>
            /\ (is_svara(b) /\ svara_s(b) # 0) =>
                   /\ st.ok
                   /\ svara_q(st.val.output_byte) = 2
                   /\ svara_g(st.val.output_byte) = 2
                   /\ svara_a(st.val.output_byte) = svara_a(b)
                   /\ svara_s(st.val.output_byte) = svara_s(b)
            /\ b = \h44 => (st.ok /\ st.val.output_byte = \h86)
            /\ b = \h48 => (st.ok /\ st.val.output_byte = \h8A)

\* C17: savarna_dirgha(a, b) succeeds exactly when a and b are both svaras
\* with equal series field S; its output byte then has Q = dirgha, G = suddha
\* (00), and A and S taken from the first operand a, so that it is a function
\* of a alone; in every other case it fails and returns no result.
C17_SavarnaDirgha ==
    (pc = "applied" /\ script = "savarna-dirgha") =>
        LET a == input[1]
            b == input[2]
        IN  /\ st.ok <=> (is_svara(a) /\ is_svara(b) /\ svara_s(a) = svara_s(b))
            /\ st.ok =>
                   /\ svara_q(st.val.output_byte) = 2
                   /\ svara_g(st.val.output_byte) = 0
                   /\ svara_a(st.val.output_byte) = svara_a(a)
                   /\ svara_s(st.val.output_byte) = svara_s(a)
                   /\ st.val.output_byte = \h80 + 16 * svara_a(a) + 4 * svara_s(a)
                   /\ st.val.input_byte = a
            /\ ~st.ok =>
                   /\ st.val = <<>>
                   /\ st.err = IF is_svara(a) /\ is_svara(b)
                               THEN <<"svaras are not savarna (different series)">>
                               ELSE <<"both inputs must be svaras">>

\* Two i-series svaras of different accent, length and grade have been joined
\* into the long i with the first one's accent.
C17_Witness ==
    /\ pc = "applied"
    /\ script = "savarna-dirgha"
    /\ input = <<\h54, \hA5>>
    /\ st.ok
    /\ st.val.output_byte = \h94

\* The five operations of the vyanjana algebra, by command-line name.
VargaOps == {"jastva", "toggle-voice", "toggle-aspiration", "nasal", "homorganic-nasal"}

\* C18: each of jastva, toggle_voice, toggle_aspiration, make_nasal and
\* homorganic_nasal fails, returning an error and no result, on every byte
\* that is not a vyanjana with PLACE <= 4 (sibilants, sonorants, glottals,
\* svaras, control and reserved bytes), and succeeds on every varga
\* consonant byte.
C18_VargaPrecondition ==
    (pc \in {"applied", "reapplied"} /\ script \in VargaOps) =>
        LET b == LastOperand
            varga == b < 64 /\ b % 8 <= 4 /\ b \div 8 <= 4
        IN  /\ varga <=> (is_vyanjana(b) /\ place(b) <= 4)
            /\ varga => (st.ok /\ st.val.input_byte = b)
            /\ ~varga =>
                   /\ ~st.ok
                   /\ st.val = <<>>
                   /\ st.err[1] = "is not a varga consonant"
                   /\ st.err[2] = b

\* jastva has been refused on the sibilant 0x2B.
C18_Witness ==
    /\ pc = "applied"
    /\ script = "jastva"
    /\ input = <<\h2B>>
    /\ ~st.ok
    /\ st.err[2] = \h2B

\* C19: for every varga consonant byte b (all five columns, nasals
\* included), toggle_voice(b) succeeds with an output differing from b in
\* exactly the voice bit, and toggle_voice applied to that output succeeds
\* and returns b; the same holds for toggle_aspiration with the aspiration
\* bit.
C19_ToggleInvolution ==
    /\ (pc = "applied" /\ script = "toggle-voice" /\ is_varga(input[1])) =>
           (st.ok /\ BitXor(st.val.output_byte, input[1]) = 2)
    /\ (pc = "applied" /\ script = "toggle-aspiration" /\ is_varga(input[1])) =>
           (st.ok /\ BitXor(st.val.output_byte, input[1]) = 1)
    /\ (/\ pc = "reapplied"
        /\ script = "toggle-voice"
        /\ is_varga(input[1])
        /\ data = <<toggle_voice(input[1]).val.output_byte>>) =>
           (st.ok /\ st.val.output_byte = input[1])
    /\ (/\ pc = "reapplied"
        /\ script = "toggle-aspiration"
        /\ is_varga(input[1])
        /\ data = <<toggle_aspiration(input[1]).val.output_byte>>) =>
           (st.ok /\ st.val.output_byte = input[1])

\* C20: samprasarana_to_svara succeeds exactly on 0x31, 0x32, 0x33, 0x34 (ya,
\* va, ra, la), giving 0x44, 0x48, 0x4C, 0x4F; samprasarana_to_sonorant
\* succeeds exactly on those four svara bytes; each undoes the other on the
\* table; every other byte, the accented or long variants of the four vowels
\* included, fails.
C20_Samprasarana ==
    LET table == {<<\h31, \h44>>, <<\h32, \h48>>, <<\h33, \h4C>>, <<\h34, \h4F>>}
    IN  /\ (pc \in {"applied", "reapplied"} /\ script = "samprasarana-svara") =>
               /\ st.ok <=> LastOperand \in {\h31, \h32, \h33, \h34}
               /\ st.ok => <<LastOperand, st.val.output_byte>> \in table
               /\ ~st.ok => st.val = <<>>
        /\ (pc \in {"applied", "reapplied"} /\ script = "samprasarana-sonorant") =>
               /\ st.ok <=> LastOperand \in {\h44, \h48, \h4C, \h4F}
               /\ st.ok => <<st.val.output_byte, LastOperand>> \in table
               /\ ~st.ok => st.val = <<>>
        /\ (/\ pc = "reapplied"
            /\ script = "samprasarana-sonorant"
            /\ samprasarana_to_svara(input[1]).ok
            /\ data = <<samprasarana_to_svara(input[1]).val.output_byte>>) =>
               (st.ok /\ st.val.output_byte = input[1])
        /\ (/\ pc = "reapplied"
            /\ script = "samprasarana-svara"
            /\ samprasarana_to_sonorant(input[1]).ok
            /\ data = <<samprasarana_to_sonorant(input[1]).val.output_byte>>) =>
               (st.ok /\ st.val.output_byte = input[1])

\* la has been turned into the vocalic l and back.
C20_Witness ==
    /\ pc = "reapplied"
    /\ script = "samprasarana-sonorant"
    /\ input = <<\h34>>
    /\ data = <<\h4F>>
    /\ st.ok
    /\ st.val.output_byte = \h34

(***************************************************************************)
(* Claims on the Devanagari decoder's loop (specification SpecDecode).     *)
(***************************************************************************)
\* The payload is the encoded word of one base consonant and one vowel.
IsSyllable(bytes) ==
    /\ Len(bytes) = 4
    /\ bytes[1] = PADA_START
    /\ is_vyanjana(bytes[2]) /\ ~is_postfix_mark(bytes[2])
    /\ is_svara(bytes[3])
    /\ bytes[4] = PADA_END

\* C21: when the Devanagari decoder meets a svara byte while a consonant is
\* pending, it emits that vowel's dependent sign (nothing at all for short
\* a), emits no virama and clears the pending flag; when no consonant is
\* pending it emits the independent vowel form.  Hence the encoded syllable
\* of one consonant plus one vowel decodes to the consonant glyph followed by
\* the vowel sign, with no virama.
C21_VowelFusion ==
    [][/\ (/\ pc = "decoding" /\ script = "Devanagari"
           /\ st.i < Len(data)
           /\ is_svara(At(data, st.i))) =>
              LET b == At(data, st.i)
              IN  /\ pc' = "decoding"
                  /\ st'.i = st.i + 1
                  /\ ~st'.consonant_pending
                  /\ st.consonant_pending =>
                         /\ st'.out = st.out \o (IF accent_masked(b) = \h40 THEN <<>>
                                                 ELSE byte_to_devanagari_matra(b))
                         /\ b = \h84 => st'.out = st.out \o <<2368>>
                         /\ b = \h40 => st'.out = st.out
                  /\ ~st.consonant_pending =>
                         /\ st'.out = st.out \o byte_to_devanagari_independent(b)
                         /\ b = \h84 => st'.out = st.out \o <<2312>>
                         /\ b = \h40 => st'.out = st.out \o <<2309>>
       /\ (pc' = "decoded" /\ script = "Devanagari" /\ IsSyllable(data)) =>
              /\ st' = Ok(byte_to_devanagari_consonant(data[2])
                          \o (IF accent_masked(data[3]) = \h40 THEN <<>>
                              ELSE byte_to_devanagari_matra(data[3])))
              /\ \A k \in 1..Len(st'.val) : st'.val[k] # VIRAMA[1]
              /\ data = <<PADA_START, \h00, \h44, PADA_END>> => st'.val = <<2325, 2367>>
      ]_vars

\* The syllable ki has been encoded and decoded to the glyph of ka and the
\* sign of i.
C21_Witness ==
    /\ pc = "decoded"
    /\ script = "Devanagari"
    /\ data = tokens_to_bytes(<<Vyanjana(\h00), Svara(\h44)>>)
    /\ st = Ok(<<2325, 2367>>)

(***************************************************************************)
(* Claims on encoded texts (specification SpecCodec).                      *)
(***************************************************************************)
\* The offsets of the byte b in bytes, and the j-th of them (j from 1).
OffsetsOf(bytes, b) == {p \in 0..(Len(bytes) - 1) : At(bytes, p) = b}
NthOffset(bytes, b, j) ==
    CHOOSE p \in OffsetsOf(bytes, b) :
        Cardinality({q \in OffsetsOf(bytes, b) : q < p}) = j - 1

\* The Numeral tokens of a token sequence, in order.
NumeralTokens(tokens) == SelectSeq(tokens, LAMBDA t : t.t = "Numeral")

\* C22: in every byte stream produced by encode_iast, for each numeral the
\* lipi span read by decode_num at its NUM marker consists of exactly that
\* numeral's digits in left-to-right order (equal to what decode_sankhya
\* returns for the paired bhasha span) and consumes exactly 1 + digit-count
\* bytes, whatever token follows the numeral; no byte of a following token
\* is absorbed into the span.
C22_LipiSpanDelimited ==
    pc = "encoded" =>
        LET nums == NumeralTokens(tokenize_iast(input).val)
        IN  /\ Cardinality(OffsetsOf(data, NUM)) = Len(nums)
            /\ Cardinality(OffsetsOf(data, SANKHYA_START)) = Len(nums)
            /\ \A j \in 1..Len(nums) :
                   LET n == decode_num(data, NthOffset(data, NUM, j))
                       b == decode_sankhya(data, NthOffset(data, SANKHYA_START, j))
                       digits == [k \in 1..Len(nums[j].digits) |-> nums[j].digits[k] - 48]
                   IN  /\ n.ok
                       /\ n.val.digits = digits
                       /\ n.val.consumed = 1 + Len(digits)
                       /\ b.ok
                       /\ b.val.digits = n.val.digits

(***************************************************************************)
(* Specification SpecEncode: tokens_to_bytes on any token sequence, one    *)
(* turn of its for loop per step.  input holds the tokens taken so far, st *)
(* the loop state [out, in_pada], data the bytes returned.                 *)
(***************************************************************************)
\* One token of every variant; numerals of one and two digits and one whose
\* digit count, 38, is written as the byte 0x26.
TokenChoices ==
    {Svara(\h40), Vyanjana(\h00), Vyanjana(\h3A), Avagraha, Space, Danda,
     DoubleDanda, Numeral(<<48>>), Numeral(<<49, 53>>),
     Numeral([k \in 1..38 |-> 55])}

InitEncode ==
    /\ pc = "tokens"
    /\ input = <<>>
    /\ data = <<>>
    /\ script = "none"
    /\ st = [out |-> <<>>, in_pada |-> FALSE]

\* One turn of for token in tokens.
TokenTurn(token) ==
    /\ pc = "tokens"
    /\ Len(input) < MaxTokens
    /\ st' = token_bytes(st, token)
    /\ input' = Append(input, token)
    /\ UNCHANGED <<pc, data, script>>

\* The loop is over: close any open pada and return out.
TokensReturn ==
    /\ pc = "tokens"
    /\ data' = close_pada(st).out
    /\ pc' = "encoded"
    /\ UNCHANGED <<input, script, st>>

NextEncode ==
    \/ \E token \in TokenChoices : TokenTurn(token)
    \/ TokensReturn

SpecEncode == InitEncode /\ [][NextEncode]_vars

\* The loop taken turn by turn returns what the call returns.
TurnsAgreeWithTokensToBytes == pc = "encoded" => data = tokens_to_bytes(input)

\* The framing of the bytes outside the offsets in skip: offs are the
\* offsets (from 1) of the PADA_START and PADA_END bytes, in order, and inside
\* the offsets strictly between a marker of odd rank and the next one.
\*  - the markers strictly alternate, beginning with PADA_START and ending
\*    with PADA_END;
\*  - every svara, vyanjana and avagraha byte lies between a PADA_START and
\*    its PADA_END;
\*  - every SPACE, DANDA, DOUBLE_DANDA and SANKHYA_START byte lies outside.
Framed(bytes, skip) ==
    \E sk \in {skip} :
    \E offs \in {SelectSeq([k \in 1..Len(bytes) |-> k],
                           LAMBDA k : /\ (k - 1) \notin sk
                                      /\ bytes[k] \in {PADA_START, PADA_END})} :
    \E inside \in {UNION {(offs[k] + 1)..(offs[k + 1] - 1) :
                              k \in {j \in 1..(Len(offs) - 1) : j % 2 = 1}}} :
        /\ Len(offs) % 2 = 0
        /\ \A k \in 1..Len(offs) :
               bytes[offs[k]] = (IF k % 2 = 1 THEN PADA_START ELSE PADA_END)
        /\ \A p \in 1..Len(bytes) :
               (p - 1) \notin sk =>
                   /\ (is_svara(bytes[p]) \/ is_vyanjana(bytes[p]) \/ bytes[p] = AVAGRAHA)
                          => p \in inside
                   /\ bytes[p] \in {SPACE, DANDA, DOUBLE_DANDA, SANKHYA_START}
                          => p \notin inside

\* The offsets, from i on, of the bytes that are a numeral's digit count (the
\* varint after SANKHYA_START) or one of its lipi digits (the bytes after
\* NUM, as many as the count says).
RECURSIVE NumeralData(_, _)
NumeralData(bytes, i) ==
    IF i >= Len(bytes) THEN {}
    ELSE IF At(bytes, i) # SANKHYA_START THEN NumeralData(bytes, i + 1)
    ELSE LET h == sankhya_head(bytes, i).val
             num == i + decode_sankhya(bytes, i).val.consumed
         IN  ((i + 1)..(h.i - 1)) \cup ((num + 1)..(num + h.count.lo))
             \cup NumeralData(bytes, num + 1 + h.count.lo)

\* C23 as stated: in the output of tokens_to_bytes the PADA_START and PADA_END
\* bytes strictly alternate, beginning with PADA_START and ending with
\* PADA_END; every svara, vyanjana and avagraha byte lies between a
\* PADA_START and its PADA_END, and every SPACE, DANDA, DOUBLE_DANDA and
\* SANKHYA_START byte lies outside any open word unit.
C23_ByteFraming ==
    pc = "encoded" => Framed(data, {})

\* C23 amended: the same framing, for every byte of the output that is not
\* the digit count or a lipi digit of a numeral span (those are data bytes
\* whose values fall into the consonant, marker and punctuation ranges).
C23_WordFraming ==
    pc = "encoded" => Framed(data, NumeralData(data, 0))

\* A word, a numeral and a word have been encoded: the pada open before the
\* numeral was closed and a new one opened after it.
C23_Witness ==
    /\ pc = "encoded"
    /\ Len(input) = 3
    /\ input[1].t = "Vyanjana" /\ input[2].t = "Numeral" /\ input[3].t = "Avagraha"
    /\ Len(input[2].digits) = 38
    /\ At(data, 2) = PADA_END
    /\ At(data, 4) = \h26
    /\ At(data, Len(data) - 3) = PADA_START

\* The offsets (from 1) at which a run of space, tab and newline chars
\* begins: a char of the three with no other before it that only carriage
\* returns separate from it.
SpaceRunStarts(text) ==
    {k \in 1..Len(text) :
        /\ text[k] \in {32, 9, 10}
        /\ ~\E j \in 1..(k - 1) :
               /\ text[j] \in {32, 9, 10}
               /\ \A m \in (j + 1)..(k - 1) : text[m] = 13}

\* C24: for every input on which tokenize_iast succeeds, the token sequence
\* never contains two adjacent word-space tokens; a maximal run of space, tab
\* and newline chars (possibly interleaved with carriage returns, which
\* produce no token) yields exactly one word-space token.
C24_WhitespaceCollapse ==
    (pc \in {"encoded", "decoded"}) =>
        LET tokens == tokenize_iast(input).val
            spaces == {k \in 1..Len(tokens) : tokens[k] = Space}
        IN  /\ tokenize_iast(input).ok
            /\ \A k \in 1..(Len(tokens) - 1) : ~(tokens[k] = Space /\ tokens[k + 1] = Space)
            /\ Cardinality(spaces) = Cardinality(SpaceRunStarts(input))
            /\ (\A k \in 1..Len(input) : input[k] \in Whitespace) =>
                   tokens = (IF SpaceRunStarts(input) = {} THEN <<>> ELSE <<Space>>)

\* A space, a carriage return and a space have been tokenized into one word
\* space.
C24_Witness ==
    /\ pc = "encoded"
    /\ input = <<32, 13, 32>>
    /\ tokenize_iast(input) = Ok(<<Space>>)
    /\ data = <<SPACE>>

\* The offsets (from 1) of the chars of a text that no tokenizer rule matches.
Unmatched(text) == {k \in 1..Len(text) : text[k] \notin IastAlphabet}

\* C25: if the input contains a char matching no rule, tokenize_iast fails
\* reporting the first such char, its code point and its position (the
\* zero-based index counted in chars), no token sequence is returned, and
\* encode_iast fails with the same error instead of returning bytes; if there
\* is no such char, tokenize_iast succeeds.
C25_TokenizerFailure ==
    (pc \in {"encoded", "rejected", "decoded"}) =>
        LET bad == Unmatched(input)
            first == CHOOSE k \in bad : \A j \in bad : k <= j
        IN  /\ bad # {} =>
                   /\ tokenize_iast(input) =
                          Err(<<"unrecognized IAST character", input[first], first - 1>>)
                   /\ tokenize_iast(input).val = <<>>
                   /\ encode_iast(input) = tokenize_iast(input)
                   /\ pc = "rejected"
                   /\ st = tokenize_iast(input)
                   /\ data = <<>>
            /\ bad = {} =>
                   /\ tokenize_iast(input).ok
                   /\ pc # "rejected"

\* The text "kax" has been rejected for its third char.
C25_Witness ==
    /\ pc = "rejected"
    /\ input = <<107, 97, 120>>
    /\ st = Err(<<"unrecognized IAST character", 120, 2>>)

\* The chars k, g, c, j, t and d with dot below, t, d, p, b.
PlainStops == {107, 103, 99, 106, 7789, 7693, 116, 100, 112, 98}

\* The tokens the chars 'h' of a text stand for, in order: the aspirate of
\* the plain stop directly before it, or the consonant h itself.
HTokens(chars) ==
    LET marks == [k \in 1..Len(chars) |->
                     IF chars[k] # 104 THEN NoToken
                     ELSE IF k > 1 /\ chars[k - 1] \in PlainStops
                     THEN Vyanjana(match_single(chars[k - 1]).b + 1)
                     ELSE Vyanjana(\h38)]
    IN  SelectSeq(marks, LAMBDA t : t # NoToken)

\* The tokens of a sequence that are an aspirated stop or the consonant h.
AspirateTokens(tokens) ==
    SelectSeq(tokens, LAMBDA t : /\ t.t = "Vyanjana"
                                 /\ t.b \in {\h01, \h03, \h09, \h0B, \h11, \h13,
                                             \h19, \h1B, \h21, \h23, \h38})

\* C26: a turn of the tokenizer at a plain stop directly followed by 'h'
\* pushes exactly one vyanjana token, the plain-stop byte plus one, and moves
\* the cursor over both chars; in the tokens of a whole text every 'h' after a
\* plain stop is such an aspirate and every other 'h' (at the start or after
\* any other char) is the token 0x38 of its own.
C26_AspiratePriority ==
    /\ \A k \in 1..(Len(input) - 1) :
           (input[k] \in PlainStops /\ input[k + 1] = 104) =>
               /\ match_single(input[k]).t = "Vyanjana"
               /\ tokenize_turn(input, [i |-> k - 1, tokens |-> <<>>, res |-> None]) =
                      [i |-> k + 1,
                       tokens |-> <<Vyanjana(match_single(input[k]).b + 1)>>,
                       res |-> None]
    /\ \A k \in 1..Len(input) :
           (input[k] = 104 /\ (k = 1 \/ input[k - 1] \notin PlainStops)) =>
               tokenize_turn(input, [i |-> k - 1, tokens |-> <<>>, res |-> None]) =
                   [i |-> k, tokens |-> <<Vyanjana(\h38)>>, res |-> None]
    /\ (pc \in {"encoded", "decoded"}) =>
           AspirateTokens(tokenize_iast(input).val) = HTokens(input)

\* "hkh" has been encoded: the h of its own, then the aspirate kh.
C26_Witness ==
    /\ pc = "encoded"
    /\ input = <<104, 107, 104>>
    /\ tokenize_iast(input).val = <<Vyanjana(\h38), Vyanjana(\h01)>>

\* A vyanjana byte that is no postfix mark: a base consonant.
IsBaseConsonant(b) == is_vyanjana(b) /\ ~is_postfix_mark(b)

\* The glyphs the decoder writes for base consonants.
ConsonantGlyphs ==
    {byte_to_devanagari_consonant(b)[1] : b \in {c \in 0..63 : IsBaseConsonant(c)}}

\* The offsets (from 1) of the viramas of a text.
Viramas(text) == {k \in 1..Len(text) : <<text[k]>> = VIRAMA}

\* Every virama of the text directly follows a consonant glyph.
ViramasFollowConsonants(text) ==
    \A k \in Viramas(text) : k > 1 /\ text[k - 1] \in ConsonantGlyphs \ {VIRAMA[1]}

\* C27: in the Devanagari decoder a turn writes a virama exactly when a
\* consonant is pending and the byte of the turn is a base consonant, a
\* PADA_END, a SANKHYA_START or a lipi control, the flag is then cleared or
\* set again by the new consonant, and the code after the loop writes one
\* exactly when a consonant is pending; a pending consonant's glyph is the
\* last char of the text, every virama of the text directly follows a
\* consonant glyph (so no two are adjacent), and no consonant is pending in
\* what the decoder returns.
C27_ViramaDiscipline ==
    /\ (pc = "decoding" /\ script = "Devanagari") =>
           /\ ViramasFollowConsonants(st.out)
           /\ st.consonant_pending =>
                  st.out # <<>> /\ st.out[Len(st.out)] \in ConsonantGlyphs
           /\ st.i < Len(data) =>
                  LET b == At(data, st.i)
                      n == devanagari_turn(data, st)
                      flushes == /\ st.consonant_pending
                                 /\ \/ IsBaseConsonant(b)
                                    \/ b \in {PADA_END, SANKHYA_START}
                                    \/ is_lipi_control(b)
                  IN  /\ Cardinality(Viramas(n.out)) =
                             Cardinality(Viramas(st.out)) + (IF flushes THEN 1 ELSE 0)
                      /\ flushes =>
                             /\ Len(n.out) > Len(st.out)
                             /\ SubSeq(n.out, 1, Len(st.out) + 1) = st.out \o VIRAMA
                             /\ n.consonant_pending = IsBaseConsonant(b)
                      /\ ~st.consonant_pending =>
                             \A k \in Viramas(n.out) : k <= Len(st.out)
           /\ st.i >= Len(data) =>
                  /\ decode_return(script, st) =
                         Ok(IF st.consonant_pending THEN st.out \o VIRAMA ELSE st.out)
                  /\ ~flush_pending(st).consonant_pending
    /\ (pc = "decoded" /\ script = "Devanagari" /\ st.ok) =>
           ViramasFollowConsonants(st.val)

\* The consonants kha and ja have been decoded: a virama for the cluster and
\* one for the end of the stream.
C27_Witness ==
    /\ pc = "decoded"
    /\ script = "Devanagari"
    /\ data = <<\h01, \h0A>>
    /\ st = Ok(<<2326, 2381, 2332, 2381>>)

\* C28: decoding the buffer encode_numeral writes for a digit string with
\* script Iast returns exactly that string, the NUM span after the SANKHYA
\* span skipped; and a turn of the IAST decoder at a NUM marker (a span with
\* no SANKHYA span before it) goes on behind the span with one char written
\* per byte of the span, the ASCII digit of a byte 0..9.
C28_NumeralsEmittedOnce ==
    /\ (pc = "decoded" /\ script = "Iast") =>
           \A d \in 0..9 :
               data = encode_numeral(<<48 + d>>, <<>>) => st = Ok(<<48 + d>>)
    /\ (pc = "decoding" /\ script = "Iast" /\ st.i < Len(data)
            /\ At(data, st.i) = NUM) =>
           LET n == iast_turn(data, st)
               e == num_span_end(data, st.i + 1)
               span == Slice(data, st.i + 1, e)
           IN  /\ n.res = None
               /\ n.i = e
               /\ Len(n.out) = Len(st.out) + Len(span)
               /\ SubSeq(n.out, 1, Len(st.out)) = st.out
               /\ \A k \in 1..Len(span) :
                      span[k] <= 9 => n.out[Len(st.out) + k] = 48 + span[k]

\* The Devanagari digit glyphs of a text, in order.
DigitGlyphs(text) == SelectSeq(text, LAMBDA g : g \in 2406..2415)

\* The ASCII digits of a text, in order.
AsciiDigits(text) == SelectSeq(text, LAMBDA c : is_ascii_digit(c))

\* C29: for every text on which encode_iast succeeds, decode_phon on the
\* bytes returns a text for either script, and the Devanagari text holds one
\* digit glyph per ASCII digit of the input, in the same order.
C29_EncodedIsDecodable ==
    (pc \in {"encoded", "decoded"}) =>
        /\ decode_phon(data, "Iast").ok
        /\ decode_phon(data, "Devanagari").ok
        /\ DigitGlyphs(decode_phon(data, "Devanagari").val) =
               [k \in 1..Len(AsciiDigits(input)) |->
                    DEVANAGARI_DIGITS[AsciiDigits(input)[k] - 48]]
        /\ pc = "decoded" => st.ok

\* C30: for every varga consonant byte b and each of jastva, toggle_voice,
\* toggle_aspiration, make_nasal and homorganic_nasal, the operation
\* succeeds with a varga consonant byte of the PLACE of b; jastva gives
\* COLUMN 2 (voiced unaspirated), make_nasal and homorganic_nasal give
\* COLUMN 4 (nasal), and each of these three applied to its own output
\* returns that output.
C30_VargaClosure ==
    /\ (pc \in {"applied", "reapplied"} /\ script \in VargaOps
            /\ is_varga(LastOperand)) =>
           /\ st.ok
           /\ is_varga(st.val.output_byte)
           /\ column(st.val.output_byte) \in 0..4
           /\ place(st.val.output_byte) = place(LastOperand)
           /\ script = "jastva" => column(st.val.output_byte) = 2
           /\ script \in {"nasal", "homorganic-nasal"} =>
                  column(st.val.output_byte) = 4
    /\ (pc = "reapplied" /\ script \in {"jastva", "nasal", "homorganic-nasal"}
            /\ is_varga(input[1])
            /\ apply_op(script, input[1]).ok
            /\ data = <<apply_op(script, input[1]).val.output_byte>>) =>
           /\ st.ok
           /\ st.val.output_byte = data[1]

====
